---------------------------- MODULE Spec2Model ----------------------------
(***************************************************************************)
(* Model of the query gateway of adnandmth/self-service-analytics:         *)
(* QueryValidator (api/services/query_validator.py), execute_query         *)
(* (api/core/database.py), the Redis cache helpers and rate limiter        *)
(* (api/utils/cache.py, api/utils/rate_limiter.py), LLMService.generate_sql*)
(* (api/services/llm_service.py), the chat handler process_query and the   *)
(* table endpoints (api/routers/chat.py), init_db and the health endpoints *)
(* (api/core/database.py, api/routers/health.py).                          *)
(*                                                                         *)
(* Python strings are sequences of one-character strings, so that upper(), *)
(* strip(), substring tests and the regular expressions are computed on    *)
(* characters as the code computes them.                                   *)
(*                                                                         *)
(* Specifications: SpecVal runs validate_query and execute_query on texts  *)
(* put together from fragments; SpecText runs them on whole texts, some    *)
(* with a LIMIT number thousands of digits long; SpecRate runs concurrent  *)
(* check_rate_limit and get_user_rate_limit_status calls against Redis     *)
(* with a clock and cache faults; SpecGen runs                             *)
(* concurrent generate_sql and delete_cache calls; SpecConv saves and      *)
(* reads back a growing conversation history; SpecExec runs execute_query  *)
(* against a clock while it awaits the database; SpecSvc calls the table   *)
(* endpoints and the health endpoints while the database goes down and     *)
(* comes back; Spec runs concurrent process_query requests through the     *)
(* whole pipeline.                                                         *)
(***************************************************************************)
EXTENDS Integers, Sequences, FiniteSets, TLC

(***************************************************************************)
(* Characters and the str methods the code uses                            *)
(***************************************************************************)
LowerLetters == <<"a", "b", "c", "d", "e", "f", "g", "h", "i", "j", "k", "l", "m",
                  "n", "o", "p", "q", "r", "s", "t", "u", "v", "w", "x", "y", "z">>
UpperLetters == <<"A", "B", "C", "D", "E", "F", "G", "H", "I", "J", "K", "L", "M",
                  "N", "O", "P", "Q", "R", "S", "T", "U", "V", "W", "X", "Y", "Z">>
DigitChars == <<"0", "1", "2", "3", "4", "5", "6", "7", "8", "9">>

Range(f) == {f[i] : i \in DOMAIN f}

IsLower(c) == c \in Range(LowerLetters)
IsLetter(c) == c \in Range(LowerLetters) \cup Range(UpperLetters)
IsDigit(c) == c \in Range(DigitChars)
\* \s of Python's re on the characters the model uses; also what str.strip() strips
IsSpace(c) == c \in {" ", "\t", "\n"}
\* [a-zA-Z_] and [a-zA-Z0-9_]
IsIdentStart(c) == IsLetter(c) \/ c = "_"
IsIdentChar(c) == IsIdentStart(c) \/ IsDigit(c)

UpperChar(c) ==
    IF IsLower(c)
    THEN UpperLetters[CHOOSE i \in DOMAIN LowerLetters : LowerLetters[i] = c]
    ELSE c

\* str.upper()
StrUpper(s) == [i \in 1..Len(s) |-> UpperChar(s[i])]

\* str.strip()
StrStrip(s) ==
    IF \A i \in 1..Len(s) : IsSpace(s[i])
    THEN <<>>
    ELSE LET a == CHOOSE i \in 1..Len(s) :
                      ~IsSpace(s[i]) /\ \A k \in 1..(i - 1) : IsSpace(s[k])
             b == CHOOSE i \in 1..Len(s) :
                      ~IsSpace(s[i]) /\ \A k \in (i + 1)..Len(s) : IsSpace(s[k])
         IN SubSeq(s, a, b)

\* sub occurs in s at position i
OccursAt(sub, s, i) ==
    /\ i >= 1
    /\ i + Len(sub) - 1 <= Len(s)
    /\ \A k \in 1..Len(sub) : s[i + k - 1] = sub[k]

\* sub occurs in s at position i, letter case ignored (sub is upper case)
OccursAtIgnoreCase(sub, s, i) ==
    /\ i >= 1
    /\ i + Len(sub) - 1 <= Len(s)
    /\ \A k \in 1..Len(sub) : UpperChar(s[i + k - 1]) = sub[k]

\* Python's `sub in s`
StrContains(sub, s) == \E i \in 1..Len(s) : OccursAt(sub, s, i)

\* s.startswith(prefix)
StrStartsWith(s, prefix) == OccursAt(prefix, s, 1)

\* s.count(c) for a one-character c
StrCount(s, c) == Cardinality({i \in 1..Len(s) : s[i] = c})

\* end (exclusive) of the maximal run of characters satisfying P from position i
RunEnd(s, i, P(_)) ==
    CHOOSE e \in i..(Len(s) + 1) :
        /\ \A k \in i..(e - 1) : P(s[k])
        /\ (e = Len(s) + 1 \/ ~P(s[e]))

\* int("...") of a non-empty digit string
RECURSIVE DecimalVal(_)
DecimalVal(ds) ==
    IF ds = <<>> THEN 0
    ELSE 10 * DecimalVal(SubSeq(ds, 1, Len(ds) - 1))
         + ((CHOOSE i \in DOMAIN DigitChars : DigitChars[i] = ds[Len(ds)]) - 1)

\* str(n) for n >= 0, as f"{limit}" formats it
RECURSIVE DecimalStr(_)
DecimalStr(n) ==
    IF n < 10 THEN <<DigitChars[n + 1]>>
    ELSE DecimalStr(n \div 10) \o <<DigitChars[(n % 10) + 1]>>

(***************************************************************************)
(* Literals of the source                                                  *)
(***************************************************************************)
K_DROP == <<"D", "R", "O", "P">>
K_DELETE == <<"D", "E", "L", "E", "T", "E">>
K_UPDATE == <<"U", "P", "D", "A", "T", "E">>
K_INSERT == <<"I", "N", "S", "E", "R", "T">>
K_CREATE == <<"C", "R", "E", "A", "T", "E">>
K_ALTER == <<"A", "L", "T", "E", "R">>
K_TRUNCATE == <<"T", "R", "U", "N", "C", "A", "T", "E">>
K_GRANT == <<"G", "R", "A", "N", "T">>
K_REVOKE == <<"R", "E", "V", "O", "K", "E">>
K_EXECUTE == <<"E", "X", "E", "C", "U", "T", "E">>
K_EXEC == <<"E", "X", "E", "C">>
S_SELECT == <<"S", "E", "L", "E", "C", "T">>
S_FROM == <<"F", "R", "O", "M">>
S_JOIN == <<"J", "O", "I", "N">>
S_LIMIT == <<"L", "I", "M", "I", "T">>
S_UNION == <<"U", "N", "I", "O", "N">>
S_OR == <<"O", "R">>
S_AND == <<"A", "N", "D">>
S_QSEMI == <<"'", ";">>
S_DASHES == <<"-", "-">>
S_HASH == <<"#">>
S_SLASHSTAR == <<"/", "*">>
S_ONE_EQ_ONE == <<"1", "=", "1">>
S_QONE_EQ_QONE == <<"'", "1", "'", "=", "'", "1", "'">>
S_SP_LIMIT_SP == <<" ", "L", "I", "M", "I", "T", " ">>

\* (mutant) a denylist that leaves UPDATE out
dangerous_keywords_NoUpdate ==
    <<K_DROP, K_DELETE, K_INSERT, K_CREATE, K_ALTER,
      K_TRUNCATE, K_GRANT, K_REVOKE, K_EXECUTE, K_EXEC>>

\* QueryValidator.dangerous_keywords, in list order
dangerous_keywords ==
    <<K_DROP, K_DELETE, K_UPDATE, K_INSERT, K_CREATE, K_ALTER,
      K_TRUNCATE, K_GRANT, K_REVOKE, K_EXECUTE, K_EXEC>>

\* the local dangerous_keywords list of execute_query, in list order
exec_dangerous_keywords ==
    <<K_DROP, K_DELETE, K_UPDATE, K_INSERT, K_CREATE, K_ALTER, K_TRUNCATE>>

\* QueryValidator.injection_patterns: each "A.*B" as the pair <<A, B>>, in list order
injection_patterns ==
    << <<S_QSEMI, S_DASHES>>, <<S_QSEMI, S_HASH>>, <<S_QSEMI, S_SLASHSTAR>>,
       <<S_UNION, S_SELECT>>, <<S_OR, S_ONE_EQ_ONE>>, <<S_OR, S_QONE_EQ_QONE>>,
       <<S_AND, S_ONE_EQ_ONE>>, <<S_AND, S_QONE_EQ_QONE>> >>

\* settings.READONLY_TABLES: required configuration without a default; the
\* model configures two tables of the bi_reports schema
T_USERS == <<"b", "i", "_", "r", "e", "p", "o", "r", "t", "s", ".", "u", "s", "e", "r", "s">>
T_LEADS == <<"b", "i", "_", "r", "e", "p", "o", "r", "t", "s", ".", "l", "e", "a", "d", "s">>
READONLY_TABLES == {T_USERS, T_LEADS}

\* settings.MAX_RESULT_ROWS
MAX_RESULT_ROWS == 10000

(***************************************************************************)
(* Regular expressions of the validator                                    *)
(***************************************************************************)
\* re.search(r"A.*B", s): A, then any characters except a newline, then B
ReSearchGap(a, b, s) ==
    \E i \in 1..Len(s) :
        /\ OccursAt(a, s, i)
        /\ \E j \in (i + Len(a))..Len(s) :
               /\ OccursAt(b, s, j)
               /\ \A k \in (i + Len(a))..(j - 1) : s[k] # "\n"

\* one attempt of r'KW\s+([a-zA-Z_][a-zA-Z0-9_]*\.[a-zA-Z_][a-zA-Z0-9_]*)' with
\* re.IGNORECASE at position i: [ok, ref (the group), end (exclusive)]
NoRefMatch == [ok |-> FALSE, ref |-> <<>>, end |-> 0]
\* [a-zA-Z_][a-zA-Z0-9_]*\.[a-zA-Z_][a-zA-Z0-9_]* at position w (greedy; no
\* shorter first identifier can be followed by the dot)
QualifiedNameAt(s, w) ==
    IF w > Len(s) THEN NoRefMatch
    ELSE IF ~IsIdentStart(s[w]) THEN NoRefMatch
    ELSE LET e1 == RunEnd(s, w, IsIdentChar)
         IN IF e1 + 1 > Len(s) THEN NoRefMatch
            ELSE IF s[e1] # "." \/ ~IsIdentStart(s[e1 + 1]) THEN NoRefMatch
            ELSE LET e2 == RunEnd(s, e1 + 1, IsIdentChar)
                 IN [ok |-> TRUE, ref |-> SubSeq(s, w, e2 - 1), end |-> e2]
ReMatchRefAt(kw, s, i) ==
    IF ~OccursAtIgnoreCase(kw, s, i) THEN NoRefMatch
    ELSE LET w == RunEnd(s, i + Len(kw), IsSpace)
         IN IF w = i + Len(kw) THEN NoRefMatch ELSE QualifiedNameAt(s, w)

\* re.findall of that pattern: the groups of the non-overlapping matches, left to right
RECURSIVE ReFindAllRefs(_, _, _)
ReFindAllRefs(kw, s, i) ==
    IF i > Len(s) THEN <<>>
    ELSE LET m == ReMatchRefAt(kw, s, i)
         IN IF m.ok THEN <<m.ref>> \o ReFindAllRefs(kw, s, m.end)
            ELSE ReFindAllRefs(kw, s, i + 1)

\* re.search(r'LIMIT\s+(\d+)', s): [ok, value] of the leftmost match
LimitMatchAt(s, i) ==
    /\ OccursAt(S_LIMIT, s, i)
    /\ LET w == RunEnd(s, i + Len(S_LIMIT), IsSpace)
       IN w > i + Len(S_LIMIT) /\ w <= Len(s) /\ IsDigit(s[w])
LimitValueAt(s, i) ==
    LET w == RunEnd(s, i + Len(S_LIMIT), IsSpace)
    IN DecimalVal(SubSeq(s, w, RunEnd(s, w, IsDigit) - 1))
ReSearchLimit(s) ==
    IF \E i \in 1..Len(s) : LimitMatchAt(s, i)
    THEN LET i == CHOOSE i \in 1..Len(s) :
                      LimitMatchAt(s, i) /\ \A k \in 1..(i - 1) : ~LimitMatchAt(s, k)
         IN [ok |-> TRUE, value |-> LimitValueAt(s, i)]
    ELSE [ok |-> FALSE, value |-> 0]


(***************************************************************************)
(* QueryValidator                                                          *)
(***************************************************************************)
\* an error text: the fixed part of the message and the value formatted into it
Err(msg, arg) == [msg |-> msg, arg |-> arg]
NoError == Err("None", <<>>)
CheckOk == [is_valid |-> TRUE, error |-> NoError]
CheckFailed(msg, arg) == [is_valid |-> FALSE, error |-> Err(msg, arg)]

Rejected(msg, arg) == [is_valid |-> FALSE, error |-> Err(msg, arg), warnings |-> <<>>]

\* the loop over dangerous_keywords: the first keyword of the list found in the text
FirstKeywordIn(keywords, text) ==
    LET hits == {k \in DOMAIN keywords : StrContains(keywords[k], text)}
    IN IF hits = {} THEN 0 ELSE CHOOSE k \in hits : \A h \in hits : k <= h

\* the loop over injection_patterns (re.IGNORECASE on the already upper-cased text)
MatchesInjectionPattern(query_upper) ==
    \E k \in DOMAIN injection_patterns :
        ReSearchGap(injection_patterns[k][1], injection_patterns[k][2], query_upper)

\* QueryValidator._validate_schema_access
validate_schema_access(sql_query) ==
    LET all_table_refs == ReFindAllRefs(S_FROM, sql_query, 1)
                          \o ReFindAllRefs(S_JOIN, sql_query, 1)
        bad == {k \in DOMAIN all_table_refs : all_table_refs[k] \notin READONLY_TABLES}
    IN IF bad = {} THEN CheckOk
       ELSE CheckFailed("Access to table is not allowed",
                        all_table_refs[CHOOSE k \in bad : \A h \in bad : k <= h])

\* QueryValidator._validate_query_structure
validate_query_structure(sql_query) ==
    LET query_upper == StrUpper(sql_query)
    IN IF ~StrStartsWith(StrStrip(query_upper), S_SELECT)
       THEN CheckFailed("Query must be a SELECT statement", <<>>)
       ELSE IF ~StrContains(S_FROM, query_upper)
       THEN CheckFailed("Query must contain FROM clause", <<>>)
       ELSE IF StrCount(query_upper, "(") # StrCount(query_upper, ")")
       THEN CheckFailed("Unbalanced parentheses in query", <<>>)
       ELSE CheckOk

\* QueryValidator._validate_query_limits
validate_query_limits(sql_query) ==
    LET query_upper == StrUpper(sql_query)
        limit_match == ReSearchLimit(query_upper)
    IN IF ~StrContains(S_LIMIT, query_upper)
       THEN CheckFailed("Query should include LIMIT clause for large result sets", <<>>)
       ELSE IF limit_match.ok /\ limit_match.value > MAX_RESULT_ROWS
       THEN CheckFailed("LIMIT value exceeds maximum allowed",
                        DecimalStr(limit_match.value))
       ELSE CheckOk

\* (mutant) the denylist scan without the conversion to upper case
DenylistScanText_CaseSensitive(sql_query) == StrStrip(sql_query)

\* the text the denylist stage of validate_query scans: sql_query.upper().strip()
DenylistScanText(sql_query) == StrStrip(StrUpper(sql_query))

\* a validate_query that checks the schema access before the denylist
validate_query_SchemaFirst(sql_query) ==
    IF sql_query = <<>> \/ StrStrip(sql_query) = <<>>
    THEN Rejected("Query cannot be empty", <<>>)
    ELSE LET query_upper == DenylistScanText(sql_query)
             kw == FirstKeywordIn(dangerous_keywords, query_upper)
             schema_validation == validate_schema_access(sql_query)
         IN IF ~schema_validation.is_valid
            THEN [is_valid |-> FALSE, error |-> schema_validation.error, warnings |-> <<>>]
            ELSE IF kw # 0
            THEN Rejected("Operation is not allowed", dangerous_keywords[kw])
            ELSE IF MatchesInjectionPattern(query_upper)
            THEN Rejected("Query contains potentially malicious patterns", <<>>)
            ELSE LET structure_validation == validate_query_structure(sql_query)
                     limit_validation == validate_query_limits(sql_query)
                 IN [is_valid |-> TRUE, error |-> NoError,
                     warnings |->
                         (IF structure_validation.is_valid THEN <<>>
                          ELSE <<structure_validation.error>>)
                         \o (IF limit_validation.is_valid THEN <<>>
                             ELSE <<limit_validation.error>>)]

\* QueryValidator.validate_query (its except branch needs a stage to raise, which
\* no stage does on a str argument)
validate_query(sql_query) ==
    IF sql_query = <<>> \/ StrStrip(sql_query) = <<>>
    THEN Rejected("Query cannot be empty", <<>>)
    ELSE LET query_upper == DenylistScanText(sql_query)
             kw == FirstKeywordIn(dangerous_keywords, query_upper)
         IN IF kw # 0
            THEN Rejected("Operation is not allowed", dangerous_keywords[kw])
            ELSE IF MatchesInjectionPattern(query_upper)
            THEN Rejected("Query contains potentially malicious patterns", <<>>)
            ELSE LET schema_validation == validate_schema_access(sql_query)
                 IN IF ~schema_validation.is_valid
                    THEN [is_valid |-> FALSE, error |-> schema_validation.error,
                          warnings |-> <<>>]
                    ELSE LET structure_validation == validate_query_structure(sql_query)
                             limit_validation == validate_query_limits(sql_query)
                         IN [is_valid |-> TRUE, error |-> NoError,
                             warnings |->
                                 (IF structure_validation.is_valid THEN <<>>
                                  ELSE <<structure_validation.error>>)
                                 \o (IF limit_validation.is_valid THEN <<>>
                                     ELSE <<limit_validation.error>>)]

\* the digits of the leftmost match of LIMIT\s+(\d+) in s, as written in s
LimitDigitCount(s) ==
    LET i == CHOOSE i \in 1..Len(s) :
                 LimitMatchAt(s, i) /\ \A k \in 1..(i - 1) : ~LimitMatchAt(s, k)
        w == RunEnd(s, i + Len(S_LIMIT), IsSpace)
    IN RunEnd(s, w, IsDigit) - w

\* the longest digit string int() converts (sys.int_max_str_digits); on a longer
\* one int(limit_match.group(1)) raises ValueError
INT_MAX_STR_DIGITS == 4300

\* an except branch that lets the text through
ValidationError_FailOpen(warnings) ==
    [is_valid |-> TRUE, error |-> NoError, warnings |-> warnings]

\* the except branch of validate_query: is_valid = False, error = "Validation
\* error: ...", on the validation_result built so far
ValidationError(warnings) ==
    [is_valid |-> FALSE, error |-> Err("Validation error", <<>>), warnings |-> warnings]

\* validate_query on the text sql_query with pad more nines after its first LIMIT
\* number: the stages before the limit check see the same text; the limit check
\* converts the whole digit string
validate_query_try(sql_query, n) ==
    LET plain == validate_query(sql_query)
        query_upper == StrUpper(sql_query)
        structure_validation == validate_query_structure(sql_query)
        structure_warnings == IF structure_validation.is_valid THEN <<>>
                              ELSE <<structure_validation.error>>
    IN IF n = 0 \/ ~plain.is_valid \/ ~ReSearchLimit(query_upper).ok
       THEN plain
       ELSE IF LimitDigitCount(query_upper) + n > INT_MAX_STR_DIGITS
       THEN ValidationError(structure_warnings)
       ELSE [is_valid |-> TRUE, error |-> NoError,
             warnings |-> structure_warnings
                          \o <<Err("LIMIT value exceeds maximum allowed", <<>>)>>]

(***************************************************************************)
(* execute_query                                                           *)
(***************************************************************************)
\* lines 118-131 of execute_query: the pre-checks and the LIMIT it appends.
\* limit = 0 stands for the falsy values None and 0 of the parameter.
\* [raised, error, query]: query is the text handed to the database
ExecNoRaise(query) == [raised |-> FALSE, error |-> NoError, query |-> query]
ExecRaise(msg, arg) == [raised |-> TRUE, error |-> Err(msg, arg), query |-> <<>>]

AppendLimit(query, query_upper, limit) ==
    IF limit # 0 /\ ~StrContains(S_LIMIT, query_upper)
    THEN query \o S_SP_LIMIT_SP \o DecimalStr(limit)
    ELSE query

execute_query_prepare(query0, limit) ==
    LET query == StrStrip(query0)
        query_upper == StrUpper(query)
        kw == FirstKeywordIn(exec_dangerous_keywords, query_upper)
    IN IF query = <<>> THEN ExecRaise("Query cannot be empty", <<>>)
       ELSE IF kw # 0 THEN ExecRaise("Operation is not allowed", exec_dangerous_keywords[kw])
       ELSE ExecNoRaise(AppendLimit(query, query_upper, limit))

\* The database (external): what conn.execute(text(query)) may do with a text.
\* It fails (syntax, permission, timeout, no engine), or runs the statement and
\* returns no row set, or returns n rows, n within the statement's own LIMIT.
DbRowCounts == {0, 1, MAX_RESULT_ROWS, MAX_RESULT_ROWS + 1, 2 * MAX_RESULT_ROWS}
DbIsSelect(query) ==
    LET q == StrUpper(query)
    IN /\ StrStartsWith(q, S_SELECT)
       /\ StrContains(S_FROM, q)
       /\ StrCount(q, "(") = StrCount(q, ")")
DbOutcomes(query) ==
    LET m == ReSearchLimit(StrUpper(query))
    IN {[kind |-> "error", rows |-> 0], [kind |-> "no_rows", rows |-> 0]}
       \cup {[kind |-> "rows", rows |-> n] :
                 n \in {k \in DbRowCounts : DbIsSelect(query) /\ (m.ok => k <= m.value)}}

NoValidation == [is_valid |-> FALSE, error |-> NoError, warnings |-> <<>>]

\* what execute_query hands to its caller
ExecNotCalled ==
    [outcome |-> "none", success |-> FALSE, row_count |-> 0, error |-> NoError,
     query |-> <<>>, limit |-> 0]
ExecReturned(query, limit, n) ==
    [outcome |-> "returned", success |-> TRUE, row_count |-> n, error |-> NoError,
     query |-> query, limit |-> limit]
ExecRaised(query, limit, error) ==
    [outcome |-> "raised", success |-> FALSE, row_count |-> 0, error |-> error,
     query |-> query, limit |-> limit]

\* lines 133-161 of execute_query, on the database's outcome db
execute_query_run(query, limit, db) ==
    IF db.kind = "error"
    THEN ExecRaised(query, limit, Err("Query execution failed", <<>>))
    ELSE IF db.kind = "rows" THEN ExecReturned(query, limit, db.rows)
    ELSE ExecReturned(query, limit, 0)

\* execute_query(query0, limit) when the database answers db
execute_query(query0, limit, db) ==
    LET pre == execute_query_prepare(query0, limit)
    IN IF pre.raised THEN ExecRaised(<<>>, limit, pre.error)
       ELSE execute_query_run(pre.query, limit, db)

\* the outcomes of execute_query(query0, limit) over what the database may do
ExecuteOutcomes(query0, limit) ==
    LET pre == execute_query_prepare(query0, limit)
    IN IF pre.raised THEN {ExecRaised(<<>>, limit, pre.error)}
       ELSE {execute_query_run(pre.query, limit, db) : db \in DbOutcomes(pre.query)}

(***************************************************************************)
(* Inputs of the validator: texts put together from fragments              *)
(***************************************************************************)
F_select_users == <<"S", "E", "L", "E", "C", "T", " ", "*", " ", "F", "R", "O", "M", " ", "b", "i", "_", "r", "e", "p", "o", "r", "t", "s", ".", "u", "s", "e", "r", "s">>
F_select_id == <<"s", "e", "l", "e", "c", "t", " ", "i", "d", " ">>
F_from_users == <<"F", "R", "O", "M", " ", "b", "i", "_", "r", "e", "p", "o", "r", "t", "s", ".", "u", "s", "e", "r", "s">>
F_join_leads == <<" ", "J", "O", "I", "N", " ", "b", "i", "_", "r", "e", "p", "o", "r", "t", "s", ".", "l", "e", "a", "d", "s">>
F_from_pay == <<" ", "f", "r", "o", "m", " ", "h", "r", ".", "p", "a", "y">>
F_comma_pay == <<",", " ", "h", "r", ".", "p", "a", "y">>
F_join_tab_pay == <<" ", "J", "O", "I", "N", "\t", "h", "r", ".", "p", "a", "y">>
F_from_users_upper == <<" ", "F", "R", "O", "M", " ", "B", "I", "_", "R", "E", "P", "O", "R", "T", "S", ".", "U", "S", "E", "R", "S">>
F_limit_5 == <<" ", "L", "I", "M", "I", "T", " ", "5">>
F_limit_20000 == <<" ", "l", "i", "m", "i", "t", " ", "2", "0", "0", "0", "0">>
F_union_select == <<" ", "U", "N", "I", "O", "N", " ", "S", "E", "L", "E", "C", "T", " ", "1">>
F_union_nl_select == <<" ", "U", "N", "I", "O", "N", "\n", "S", "E", "L", "E", "C", "T", " ", "1">>
F_or_1_eq_1 == <<" ", "O", "R", " ", "1", "=", "1">>
F_quote_semi == <<"'", ";">>
F_dashes == <<" ", "-", "-">>
F_drop_table == <<" ", "D", "r", "o", "p", " ", "T", "A", "B", "L", "E", " ", "t">>
F_updated_at == <<" ", "u", "p", "d", "a", "t", "e", "d", "_", "a", "t">>
F_exec == <<" ", "e", "x", "e", "c">>
F_paren == <<" ", "(">>
F_spaces == <<" ", " ">>
F_semi_delete == <<";", " ", "d", "e", "l", "e", "t", "e">>
F_insert == <<" ", "I", "n", "s", "e", "r", "t">>
F_create == <<" ", "C", "R", "E", "A", "T", "E">>
F_alter == <<" ", "a", "l", "t", "e", "r">>
F_truncate == <<" ", "t", "r", "u", "n", "c", "a", "t", "e">>
F_grant == <<" ", "G", "R", "A", "N", "T">>
F_revoke == <<" ", "R", "e", "v", "o", "k", "e">>
F_execute == <<" ", "E", "x", "e", "c", "u", "t", "e">>
F_rate_limit == <<" ", "r", "a", "t", "e", "_", "l", "i", "m", "i", "t">>

Fragments ==
    {F_select_users, F_select_id, F_from_users, F_join_leads, F_from_pay, F_comma_pay,
     F_join_tab_pay, F_from_users_upper, F_limit_5, F_limit_20000, F_union_select,
     F_union_nl_select, F_or_1_eq_1, F_quote_semi, F_dashes, F_drop_table,
     F_updated_at, F_exec, F_paren, F_spaces, F_semi_delete, F_insert, F_create,
     F_alter, F_truncate, F_grant, F_revoke, F_execute, F_rate_limit}

\* the longest input, in fragments
MaxFrags == 2

\* the limit arguments execute_query is called with
RowCaps == {1, MAX_RESULT_ROWS}

(***************************************************************************)
(* State                                                                   *)
(***************************************************************************)
VARIABLES
    inp,                \* validator run: the text under validation
    nfrags,             \* validator run: fragments put into inp
    pad,                \* validator run: nines that follow the first LIMIT number of
                        \* inp in the text validated, not written out in inp
    vphase,             \* validator run: "input", "validated" or "executed"
    validation_result,  \* validator run: what validate_query(inp) returned
    exec_result,        \* validator run: what execute_query(inp, limit) did
    now,                \* the clock, in seconds
    cacheUp,            \* whether Redis answers
    rl,                 \* Redis: the rate_limit:<user_id> keys
    gen,                \* Redis: the sql_generation:<hash> keys
    proc,               \* each request's position and local variables
    hash_seed,          \* the hash() salt of the worker process serving each request
    started,            \* calls started so far
    llm_calls,          \* per user text: the completion-service calls issued so far
    win,                \* per user: the 60-second window the claims count calls in
    conv,               \* Redis: the conversation:<conversation_id> keys
    chat,               \* per conversation: the caller's message list and what it read back
    qres,               \* Redis: the query_result:<query_hash> keys that exist
    async_engine,       \* database.py: the async_engine global, "None" or "engine"
    db_up,              \* whether the database accepts connections
    db_tested,          \* whether a test connection of init_db has succeeded
    reply               \* what the table or health endpoint called last answered

valVars == <<inp, nfrags, pad, vphase, validation_result, exec_result>>
sysVars == <<now, cacheUp, rl, gen, proc, hash_seed, started, llm_calls, win>>
convVars == <<conv, chat, qres>>
svcVars == <<async_engine, db_up, db_tested, reply>>
vars == <<valVars, sysVars, convVars, svcVars>>

\* no table or health endpoint called yet
NoReply ==
    [endpoint |-> "none", status |-> 0, detail |-> "", table |-> <<>>,
     ran |-> <<>>, row_count |-> 0]

\* the lifespan hook has run init_db with the database up
SvcStarted ==
    /\ async_engine = "engine"
    /\ db_up = TRUE
    /\ db_tested = TRUE
    /\ reply = NoReply

\* no validator run under way
NoValidatorRun ==
    /\ inp = <<>>
    /\ nfrags = 0
    /\ pad = 0
    /\ vphase = "input"
    /\ validation_result = NoValidation
    /\ exec_result = ExecNotCalled

\* the state the other specifications start from: the service started, no validator run
ValIdle == SvcStarted /\ NoValidatorRun

(***************************************************************************)
(* ChatResponse and the responses of process_query                         *)
(***************************************************************************)
NoResponse == [status |-> 0, kind |-> "none", reason |-> NoError]

\* global_exception_handler: 500 with the fixed text "Internal server error"
GenericError ==
    [status |-> 500, kind |-> "generic_error", reason |-> Err("Internal server error", <<>>)]

\* raise HTTPException(status_code=429, detail="Rate limit exceeded")
RateLimited ==
    [status |-> 429, kind |-> "rate_limited", reason |-> Err("Rate limit exceeded", <<>>)]

\* ChatResponse(...): the model declares timestamp: str, and a float given for
\* it fails validation (no number-to-string coercion): [raised, resp]
ChatResponse(kind, reason, timestamp_type) ==
    IF timestamp_type = "str"
    THEN [raised |-> FALSE, resp |-> [status |-> 200, kind |-> kind, reason |-> reason]]
    ELSE [raised |-> TRUE, resp |-> NoResponse]

\* an except branch whose ChatResponse is accepted: message and error carry str(e)
ExceptHandler_RawError(e) == ChatResponse("error", e, "str").resp

\* the except branch of process_query: it answers with ChatResponse(error=str(e),
\* timestamp=<float>); what that raises goes to global_exception_handler
ExceptHandler(e) ==
    LET c == ChatResponse("error", e, "float")
    IN IF c.raised THEN GenericError ELSE c.resp

\* the rejection branch of process_query: return ChatResponse(message=...
\* validation_result['error'], timestamp=<float>), inside the try block
RejectionResponse(error) ==
    LET c == ChatResponse("rejected", error, "float")
    IN IF c.raised THEN ExceptHandler(Err("validation error for ChatResponse", <<>>))
       ELSE c.resp

\* the last return of process_query: ChatResponse(..., timestamp=str(<float>))
SuccessResponse ==
    LET c == ChatResponse("success", NoError, "str")
    IN IF c.raised THEN ExceptHandler(Err("validation error for ChatResponse", <<>>))
       ELSE c.resp

(***************************************************************************)
(* Requests, the Redis store and the clock                                 *)
(***************************************************************************)
Procs == {"p1", "p2"}
\* process_query runs every request as "test_user" (the placeholder dependency)
Users == {"test_user"}
\* the user texts of the requests
Texts == {"top projects", "leads by channel"}
\* the salts hash() may have in the worker processes
Seeds == {1, 2}
\* the requests are served by one worker process, or by two with different salts
SaltAssignments == {[p \in Procs |-> 1], [p \in Procs |-> IF p = "p1" THEN 1 ELSE 2]}

\* settings.RATE_LIMIT_PER_MINUTE is configuration (default 60); the model
\* configures a small limit
ConfiguredRateLimit == 3
RATE_LIMIT_PER_MINUTE == ConfiguredRateLimit
\* await redis.expire(key, 60)
RATE_LIMIT_EXPIRE == 60
\* await set_cache(cache_key, sql_query, expire=3600)
SQL_GENERATION_EXPIRE == 3600

\* calls started in one run
MaxCalls == 5
\* the clock of the rate-limiter runs: its step and its last instant
RateStep == 20
RateHorizon == 80

\* a Redis key: count = 0 is an absent rate-limit key, expireAt = -1 is no expiry
NoKey == [count |-> 0, expireAt |-> -1]
NoEntry == [present |-> FALSE, value |-> <<>>, expireAt |-> -1]
\* INCR: creates the key at 1 without expiry, keeps the expiry of an existing key
RedisIncr(key) == [count |-> key.count + 1, expireAt |-> key.expireAt]
\* EXPIRE key ttl at time t: nothing on an absent key
RedisExpire(key, t, ttl) == IF key.count = 0 THEN key ELSE [key EXCEPT !.expireAt = t + ttl]
\* SETEX key ttl value at time t
RedisSetex(t, ttl, value) == [present |-> TRUE, value |-> value, expireAt |-> t + ttl]
\* whether the key's expiry has passed at time t
RedisExpired(expireAt, t) == expireAt # -1 /\ expireAt <= t

\* the Python hash() of a text in a worker process: the cache key depends on
\* the text and on the process's salt (collisions are not modelled)
Fingerprint(text, seed) == <<text, seed>>
GenKeys == {Fingerprint(t, s) : t \in Texts, s \in Seeds}

\* the completion-service calls of a user text: n calls issued, the first
\* generate_sql call with the text made at firstAt under hash salt seed; excused
\* once a call failed, produced an empty text, ran under another salt or found
\* the cache down, or once the entry was deleted
NoCalls == [n |-> 0, firstAt |-> -1, seed |-> 0, excused |-> FALSE]

\* with the lifetimes of the user's counter: epoch numbers them, granted counts
\* the calls of the current one that returned True, reachable is whether Redis
\* answered every call since it began
NoWindow ==
    [firstAt |-> -1, n |-> 0, tainted |-> FALSE, denied |-> FALSE,
     epoch |-> 0, granted |-> 0, reachable |-> TRUE]

\* what get_user_rate_limit_status returns, before any call of it
NoStatus == [current_count |-> 0, remaining |-> 0, exceeded |-> FALSE]

IdleProc ==
    [pc |-> "idle", top |-> "none", user |-> "none", status |-> NoStatus,
     cur |-> 0, ord |-> 0, inwin |-> FALSE, clean |-> TRUE, reopened |-> FALSE,
     allowed |-> "none", cache_failed |-> FALSE, epoch |-> 0,
     text |-> "none", hit |-> FALSE, llm |-> "none", content |-> <<>>, sql |-> <<>>,
     conversation_id |-> "none", history |-> <<>>,
     gen_out |-> "none", get_down |-> FALSE, set_down |-> FALSE, ret |-> "none",
     vtext |-> <<>>, vres |-> NoValidation,
     xarg |-> <<>>, xlimit |-> 0, xstart |-> -1, xres |-> ExecNotCalled,
     resp |-> NoResponse]

\* the conversation ids of the requests
ConvIds == {"c1"}
\* no message list yet, nothing read back
NoChat == [messages |-> <<>>, stored |-> FALSE, read |-> <<>>]

\* no query_result key
NoResults == [query_hash \in {} |-> NoEntry]

StoreIdle ==
    /\ conv = [c \in ConvIds |-> NoEntry]
    /\ chat = [c \in ConvIds |-> NoChat]
    /\ qres = NoResults
    /\ now = 0
    /\ cacheUp = TRUE
    /\ rl = [u \in Users |-> NoKey]
    /\ gen = [k \in GenKeys |-> NoEntry]
    /\ proc = [p \in Procs |-> IdleProc]
    /\ started = 0
    /\ llm_calls = [t \in Texts |-> NoCalls]
    /\ win = [u \in Users |-> NoWindow]

\* the requests are served by one worker process
SysIdle == StoreIdle /\ hash_seed = [p \in Procs |-> 1]

\* Redis stops answering, and answers again
CacheFail ==
    /\ cacheUp
    /\ cacheUp' = FALSE
    /\ UNCHANGED <<now, rl, gen, proc, hash_seed, started, llm_calls, win>>
    /\ UNCHANGED <<valVars, svcVars>>
    /\ UNCHANGED convVars
CacheRecover ==
    /\ ~cacheUp
    /\ cacheUp' = TRUE
    /\ UNCHANGED <<now, rl, gen, proc, hash_seed, started, llm_calls, win>>
    /\ UNCHANGED <<valVars, svcVars>>
    /\ UNCHANGED convVars

\* d seconds pass; Redis drops the keys whose expiry has passed
AdvanceTime(d) ==
    /\ now' = now + d
    /\ rl' = [u \in Users |-> IF RedisExpired(rl[u].expireAt, now + d) THEN NoKey ELSE rl[u]]
    /\ gen' = [k \in GenKeys |->
                  IF RedisExpired(gen[k].expireAt, now + d) THEN NoEntry ELSE gen[k]]
    /\ conv' = [c \in ConvIds |->
                   IF RedisExpired(conv[c].expireAt, now + d) THEN NoEntry ELSE conv[c]]
    /\ qres' = [k \in {h \in DOMAIN qres : ~RedisExpired(qres[h].expireAt, now + d)} |->
                   qres[k]]
    /\ UNCHANGED <<cacheUp, proc, hash_seed, started, llm_calls, win, chat>>
    /\ UNCHANGED <<valVars, svcVars>>

\* a call takes the first free request slot
SlotFree(p) == proc[p].pc = "idle" /\ (p = "p1" \/ proc["p1"].pc # "idle")

\* a finished call leaves; the request slot takes the next call
ProcReturn(p) ==
    /\ proc[p].pc = "done"
    /\ proc' = [proc EXCEPT ![p] = IdleProc]
    /\ UNCHANGED <<now, cacheUp, rl, gen, hash_seed, started, llm_calls, win>>
    /\ UNCHANGED <<valVars, svcVars>>
    /\ UNCHANGED convVars

(***************************************************************************)
(* check_rate_limit and increment_rate_limit                               *)
(***************************************************************************)
\* (mutant) a failed increment reported as a count over the limit
IncrementFailureValue_Deny == RATE_LIMIT_PER_MINUTE + 1

\* increment_rate_limit's except branch: return 0
IncrementFailureValue == 0

\* (mutant) a comparison that lets one call more through
RateAllowed_OneMore(current_count) == ~(current_count > RATE_LIMIT_PER_MINUTE + 1)

\* (mutant) the comparison off by one
RateAllowed_OffByOne(current_count) == ~(current_count >= RATE_LIMIT_PER_MINUTE)

\* check_rate_limit: False when current_count > limit, True otherwise
RateAllowed(current_count) == ~(current_count > RATE_LIMIT_PER_MINUTE)

\* a process_query that logs the refusal and goes on with the request
AfterRateCheck_GoesOn(r, current_count) ==
    LET ok == RateAllowed(current_count)
    IN [r EXCEPT !.cur = current_count,
                 !.allowed = IF ok THEN "yes" ELSE "no",
                 !.pc = IF r.top = "check_rate_limit" THEN "done" ELSE "g_get"]

\* check_rate_limit returns with current_count: the call ends, or process_query
\* goes on (or answers 429)
AfterRateCheck(r, current_count) ==
    LET ok == RateAllowed(current_count)
    IN [r EXCEPT !.cur = current_count,
                 !.allowed = IF ok THEN "yes" ELSE "no",
                 !.pc = IF r.top = "check_rate_limit" THEN "done"
                        ELSE IF ok THEN "g_get" ELSE "done",
                 !.resp = IF r.top = "process_query" /\ ~ok
                          THEN RateLimited
                          ELSE r.resp]

\* the window of the user at a call issued at time t, the key being absent or not
WindowAtCall(w, t, absent, failed) ==
    IF w.firstAt = -1 \/ (t >= w.firstAt + RATE_LIMIT_EXPIRE /\ absent)
    THEN [w EXCEPT !.firstAt = t, !.n = 1, !.tainted = failed]
    ELSE [w EXCEPT !.n = w.n + 1, !.tainted = w.tainted \/ failed]

\* the lifetime of the counter at an INCR: an INCR that creates the key begins one
LifetimeAtIncr(w, absent, up) ==
    IF ~up THEN [w EXCEPT !.reachable = FALSE]
    ELSE IF absent THEN [w EXCEPT !.epoch = w.epoch + 1, !.granted = 0, !.reachable = TRUE]
    ELSE w

\* the lifetime of the counter when a call that ran INCR in lifetime e returns
LifetimeAtReturn(w, e, allowed, up) ==
    IF ~up THEN [w EXCEPT !.reachable = FALSE]
    ELSE IF allowed = "yes" /\ e = w.epoch THEN [w EXCEPT !.granted = w.granted + 1]
    ELSE w

\* the window bookkeeping follows the direct calls of check_rate_limit
Tracked(r) == r.top = "check_rate_limit"

\* a caller (the middleware) calls check_rate_limit(user_id)
RateStart(p, u) ==
    /\ SlotFree(p)
    /\ started < MaxCalls
    /\ started' = started + 1
    /\ proc' = [proc EXCEPT ![p] = [IdleProc EXCEPT !.pc = "rl_incr",
                                                    !.top = "check_rate_limit",
                                                    !.user = u]]
    /\ UNCHANGED <<now, cacheUp, rl, gen, hash_seed, llm_calls, win>>
    /\ UNCHANGED <<valVars, svcVars>>
    /\ UNCHANGED convVars

\* get_rate_limit_count: GET on the key; 0 for a missing key and for a failed call
get_rate_limit_count(key, up) == IF up THEN key.count ELSE 0

\* (mutant) exceeded reported only past the limit
get_user_rate_limit_status_PastLimit(current_count) ==
    [current_count |-> current_count,
     remaining |-> IF RATE_LIMIT_PER_MINUTE - current_count > 0
                   THEN RATE_LIMIT_PER_MINUTE - current_count ELSE 0,
     exceeded |-> current_count > RATE_LIMIT_PER_MINUTE]

\* get_user_rate_limit_status on the count that get_rate_limit_count returned
get_user_rate_limit_status(current_count) ==
    [current_count |-> current_count,
     remaining |-> IF RATE_LIMIT_PER_MINUTE - current_count > 0
                   THEN RATE_LIMIT_PER_MINUTE - current_count ELSE 0,
     exceeded |-> current_count >= RATE_LIMIT_PER_MINUTE]

\* a call of get_user_rate_limit_status(u): one GET, then the answer
RateStatus(p, u) ==
    /\ SlotFree(p)
    /\ started < MaxCalls
    /\ started' = started + 1
    /\ proc' = [proc EXCEPT ![p] =
                    [IdleProc EXCEPT !.pc = "done",
                                     !.top = "get_user_rate_limit_status",
                                     !.user = u,
                                     !.status = get_user_rate_limit_status(
                                                    get_rate_limit_count(rl[u], cacheUp))]]
    /\ UNCHANGED <<now, cacheUp, rl, gen, hash_seed, llm_calls, win>>
    /\ UNCHANGED <<valVars, svcVars>>
    /\ UNCHANGED convVars

\* count = await redis.incr(key)
RateIncr(p) ==
    LET r == proc[p]
        u == r.user
        w == IF Tracked(r)
             THEN LifetimeAtIncr(WindowAtCall(win[u], now, rl[u].count = 0, ~cacheUp),
                                 rl[u].count = 0, cacheUp)
             ELSE win[u]
        r1 == IF Tracked(r)
              THEN [r EXCEPT !.ord = w.n,
                             !.epoch = w.epoch,
                             !.inwin = now < w.firstAt + RATE_LIMIT_EXPIRE,
                             !.clean = ~w.tainted,
                             !.reopened = win[u].firstAt # -1 /\ w.n = 1]
              ELSE r
    IN /\ r.pc = "rl_incr"
       /\ IF cacheUp
          THEN /\ rl' = [rl EXCEPT ![u] = RedisIncr(rl[u])]
               /\ proc' = [proc EXCEPT ![p] = [r1 EXCEPT !.cur = rl[u].count + 1,
                                                         !.pc = "rl_expire"]]
               /\ win' = [win EXCEPT ![u] = w]
          ELSE /\ proc' = [proc EXCEPT ![p] =
                              AfterRateCheck([r1 EXCEPT !.cache_failed = TRUE],
                                             IncrementFailureValue)]
               /\ win' = [win EXCEPT ![u] = w]
               /\ UNCHANGED rl
       /\ UNCHANGED <<now, cacheUp, gen, hash_seed, started, llm_calls>>
       /\ UNCHANGED <<valVars, svcVars>>
       /\ UNCHANGED convVars

\* await redis.expire(key, 60); return count
RateExpire(p) ==
    LET r == proc[p]
        u == r.user
    IN /\ r.pc = "rl_expire"
       /\ IF cacheUp
          THEN /\ rl' = [rl EXCEPT ![u] = RedisExpire(rl[u], now, RATE_LIMIT_EXPIRE)]
               /\ LET r2 == AfterRateCheck(r, r.cur)
                  IN /\ proc' = [proc EXCEPT ![p] = r2]
                     /\ win' = IF Tracked(r)
                               THEN [win EXCEPT ![u] =
                                        LifetimeAtReturn(
                                            [win[u] EXCEPT !.denied = @ \/ r2.allowed = "no"],
                                            r.epoch, r2.allowed, TRUE)]
                               ELSE win
          ELSE /\ proc' = [proc EXCEPT ![p] =
                              AfterRateCheck([r EXCEPT !.clean = ~Tracked(r),
                                                       !.cache_failed = TRUE],
                                             IncrementFailureValue)]
               /\ win' = IF Tracked(r)
                         THEN [win EXCEPT ![u] =
                                  LifetimeAtReturn([win[u] EXCEPT !.tainted = TRUE],
                                                   r.epoch, "yes", FALSE)]
                         ELSE win
               /\ UNCHANGED rl
       /\ UNCHANGED <<now, cacheUp, gen, hash_seed, started, llm_calls>>
       /\ UNCHANGED <<valVars, svcVars>>
       /\ UNCHANGED convVars

RateTick ==
    /\ now + RateStep <= RateHorizon
    /\ AdvanceTime(RateStep)

RateNext ==
    \/ \E p \in Procs, u \in Users : RateStart(p, u)
    \/ \E p \in Procs, u \in Users : RateStatus(p, u)
    \/ \E p \in Procs : RateIncr(p)
    \/ \E p \in Procs : RateExpire(p)
    \/ \E p \in Procs : ProcReturn(p)
    \/ CacheFail
    \/ CacheRecover
    \/ RateTick

RateInit == ValIdle /\ SysIdle

SpecRate == RateInit /\ [][RateNext]_vars

(***************************************************************************)
(* get_cache, set_cache, delete_cache and LLMService.generate_sql          *)
(***************************************************************************)
\* what the completion service may put in response.choices[0].message.content
L_valid == F_spaces \o F_select_users \o F_limit_5 \o <<"\n">>
L_unlisted == F_select_id \o F_from_pay
L_blank == F_spaces
LlmContents == {L_valid, L_unlisted, L_blank}

\* generate_sql and delete_cache calls started in one run
MaxGenCalls == 2
\* the clock of the generation runs: its step and its last instant
GenStep == 3600
GenHorizon == 3600

\* (mutant) get_cache lets the Redis exception out
get_cache_on_failure_Raise == "raise"

\* get_cache's except branch: return None
get_cache_on_failure == "None"

\* get_cache(key): [raised, value]; value = <<>> stands for None as well as for
\* the empty string, which `if cached_result:` treats alike
get_cache(store, key, up) ==
    IF up
    THEN [raised |-> FALSE, value |-> IF store[key].present THEN store[key].value ELSE <<>>]
    ELSE [raised |-> get_cache_on_failure = "raise", value |-> <<>>]

\* set_cache(key, value, expire) at time t: [store, ret]
set_cache(store, key, value, expire, t, up) ==
    IF up
    THEN [store |-> [store EXCEPT ![key] = RedisSetex(t, expire, value)], ret |-> "True"]
    ELSE [store |-> store, ret |-> "False"]

\* delete_cache(key): [store, ret]
delete_cache(store, key, up) ==
    IF up
    THEN [store |-> [store EXCEPT ![key] = NoEntry], ret |-> "True"]
    ELSE [store |-> store, ret |-> "False"]

\* the expire default of cache_query_result, in seconds
QUERY_RESULT_EXPIRE == 1800

\* cache_query_result(query_hash, result) at time t: set_cache_json under
\* query_result:<query_hash>: [store, ret]
cache_query_result(store, query_hash, result, t, up) ==
    IF up
    THEN [store |-> [k \in DOMAIN store \cup {query_hash} |->
                        IF k = query_hash THEN RedisSetex(t, QUERY_RESULT_EXPIRE, result)
                        ELSE store[k]],
          ret |-> "True"]
    ELSE [store |-> store, ret |-> "False"]

\* get_cached_query_result(query_hash): the stored result, or None
get_cached_query_result(store, query_hash, up) ==
    IF up /\ query_hash \in DOMAIN store
    THEN [found |-> TRUE, result |-> store[query_hash].value]
    ELSE [found |-> FALSE, result |-> <<>>]

\* a turn {role, content}: the n-th turn of a conversation, content numbered
Turn(n) == [role |-> IF n % 2 = 1 THEN "user" ELSE "assistant", content |-> n]

\* json.dumps(messages) and json.loads(text): the stored text is a JSON array
json_dumps(messages) == [json |-> "array", items |-> messages]
json_loads(text) ==
    IF text.json = "array" THEN [raised |-> FALSE, value |-> text.items]
    ELSE [raised |-> TRUE, value |-> <<>>]

\* the last n elements of a list, in the list's order
LastOf(messages, n) ==
    IF Len(messages) > n THEN SubSeq(messages, Len(messages) - n + 1, Len(messages))
    ELSE messages

\* (mutant) the first ten kept instead of the last ten
KeepRecent_KeepOldest(messages) ==
    IF Len(messages) > 10 THEN SubSeq(messages, 1, 10) ELSE messages

\* if len(messages) > 10: messages = messages[-10:]
KeepRecent(messages) ==
    IF Len(messages) > 10 THEN LastOf(messages, 10) ELSE messages

\* await set_cache(f"conversation:{conversation_id}", json.dumps(messages), expire=3600)
CONVERSATION_EXPIRE == 3600

\* _save_conversation_history(conversation_id, messages): [store, ret]
save_conversation_history(store, conversation_id, messages, t, up) ==
    set_cache(store, conversation_id, json_dumps(KeepRecent(messages)),
              CONVERSATION_EXPIRE, t, up)

\* _get_conversation_history(conversation_id): the parsed list, or [] on a
\* miss, on a cache fault and on a text that does not parse
get_conversation_history(store, conversation_id, up) ==
    LET got == get_cache(store, conversation_id, up)
    IN IF got.raised \/ got.value = <<>> THEN <<>>
       ELSE LET parsed == json_loads(got.value)
            IN IF parsed.raised THEN <<>> ELSE parsed.value

\* cache_key = f"sql_generation:{hash(user_query)}" in the process serving p
CacheKeyOf(p) == Fingerprint(proc[p].text, hash_seed[p])

\* generate_sql returns sql_query to its caller: the call ends, or process_query
\* goes on to validate it
GenReturn(r, sql_query) ==
    [r EXCEPT !.sql = sql_query,
              !.gen_out = "returned",
              !.pc = IF r.top = "generate_sql" THEN "done" ELSE "validate"]

\* a call of generate_sql(user_query = text, conversation_id = "c1") in the
\* process serving p (process_query always passes a conversation id)
GenBegin(p, top, text, max) ==
    /\ SlotFree(p)
    /\ started < max
    /\ started' = started + 1
    /\ llm_calls' = [llm_calls EXCEPT ![text] =
                        IF @.firstAt = -1
                        THEN [@ EXCEPT !.firstAt = now, !.seed = hash_seed[p]]
                        ELSE [@ EXCEPT !.excused = @ \/ llm_calls[text].seed # hash_seed[p]]]
    /\ proc' = [proc EXCEPT ![p] = [IdleProc EXCEPT !.top = top, !.text = text,
                                                    !.conversation_id = "c1",
                                                    !.pc = IF top = "generate_sql"
                                                           THEN "g_get" ELSE "rl_incr",
                                                    !.user = IF top = "generate_sql"
                                                             THEN "none" ELSE "test_user"]]
    /\ UNCHANGED <<now, cacheUp, rl, gen, hash_seed, win>>
    /\ UNCHANGED <<valVars, svcVars>>
    /\ UNCHANGED convVars

GenStart(p, text) == GenBegin(p, "generate_sql", text, MaxGenCalls)

\* cached_result = await get_cache(cache_key); if cached_result: return it
GenGet(p) ==
    LET r == proc[p]
        got == get_cache(gen, CacheKeyOf(p), cacheUp)
        r1 == [r EXCEPT !.get_down = ~cacheUp]
    IN /\ r.pc = "g_get"
       /\ proc' = [proc EXCEPT ![p] =
                      IF got.raised
                      THEN [r1 EXCEPT !.gen_out = "raised", !.pc = "done",
                                      !.resp = IF r.top = "process_query"
                                               THEN GenericError ELSE r.resp]
                      ELSE IF got.value # <<>>
                      THEN GenReturn([r1 EXCEPT !.hit = TRUE], got.value)
                      ELSE [r1 EXCEPT !.pc = "g_hist"]]
       /\ llm_calls' = [llm_calls EXCEPT ![r.text].excused = @ \/ ~cacheUp]
       /\ UNCHANGED <<now, cacheUp, rl, gen, hash_seed, started, win>>
       /\ UNCHANGED <<valVars, svcVars>>
       /\ UNCHANGED convVars

\* history = await self._get_conversation_history(conversation_id); a failure
\* is logged and gives the empty history
GenHistory(p) ==
    LET r == proc[p]
        history == get_conversation_history(conv, r.conversation_id, cacheUp)
    IN /\ r.pc = "g_hist"
       /\ proc' = [proc EXCEPT ![p] = [r EXCEPT !.history = history, !.pc = "g_llm"]]
       /\ UNCHANGED <<now, cacheUp, rl, gen, hash_seed, started, llm_calls, win>>
       /\ UNCHANGED <<valVars, svcVars>>
       /\ UNCHANGED convVars

\* an except branch that issues the completion call again instead of raising
GenRaise_Retry(r) == [r EXCEPT !.pc = "g_llm"]

\* the except branch of generate_sql: log, raise ValueError("Failed to generate
\* SQL: ..."); in process_query the ValueError goes to its except branch
GenRaise(r) ==
    [r EXCEPT !.llm = "failed", !.gen_out = "raised", !.pc = "done",
              !.resp = IF r.top = "process_query"
                       THEN ExceptHandler(Err("Failed to generate SQL", <<>>))
                       ELSE r.resp]

\* response = await self.client.chat.completions.create(...): the service
\* answers with content, or the call fails and generate_sql raises ValueError
GenLlm(p) ==
    LET r == proc[p]
        t == r.text
    IN /\ r.pc = "g_llm"
       /\ \/ \E content \in LlmContents :
                /\ proc' = [proc EXCEPT ![p] = [r EXCEPT !.llm = "ok",
                                                        !.content = content,
                                                        !.sql = StrStrip(content),
                                                        !.pc = "g_set"]]
                /\ llm_calls' = [llm_calls EXCEPT ![t] =
                                    [@ EXCEPT !.n = @ + 1,
                                              !.excused = @ \/ StrStrip(content) = <<>>]]
          \/ /\ proc' = [proc EXCEPT ![p] = GenRaise(r)]
             /\ llm_calls' = [llm_calls EXCEPT ![t] =
                                 [@ EXCEPT !.n = @ + 1, !.excused = TRUE]]
       /\ UNCHANGED <<now, cacheUp, rl, gen, hash_seed, started, win>>
       /\ UNCHANGED <<valVars, svcVars>>
       /\ UNCHANGED convVars

\* await set_cache(cache_key, sql_query, expire=3600); return sql_query
GenSet(p) ==
    LET r == proc[p]
        put == set_cache(gen, CacheKeyOf(p), r.sql, SQL_GENERATION_EXPIRE, now, cacheUp)
    IN /\ r.pc = "g_set"
       /\ gen' = put.store
       /\ proc' = [proc EXCEPT ![p] =
                      GenReturn([r EXCEPT !.set_down = ~cacheUp, !.ret = put.ret], r.sql)]
       /\ llm_calls' = [llm_calls EXCEPT ![r.text].excused = @ \/ ~cacheUp]
       /\ UNCHANGED <<now, cacheUp, rl, hash_seed, started, win>>
       /\ UNCHANGED <<valVars, svcVars>>
       /\ UNCHANGED convVars

\* a caller deletes the generation entry of a text: await delete_cache(cache_key)
DeleteStart(p, text) ==
    /\ SlotFree(p)
    /\ started < MaxGenCalls
    /\ started' = started + 1
    /\ proc' = [proc EXCEPT ![p] = [IdleProc EXCEPT !.top = "delete_cache", !.text = text,
                                                    !.pc = "c_del"]]
    /\ UNCHANGED <<now, cacheUp, rl, gen, hash_seed, llm_calls, win>>
    /\ UNCHANGED <<valVars, svcVars>>
    /\ UNCHANGED convVars

DeleteRun(p) ==
    LET r == proc[p]
        del == delete_cache(gen, CacheKeyOf(p), cacheUp)
    IN /\ r.pc = "c_del"
       /\ gen' = del.store
       /\ proc' = [proc EXCEPT ![p] = [r EXCEPT !.ret = del.ret,
                                                !.pc = "done"]]
       /\ llm_calls' = IF cacheUp
                       THEN [llm_calls EXCEPT ![r.text].excused = TRUE]
                       ELSE llm_calls
       /\ UNCHANGED <<now, cacheUp, rl, hash_seed, started, win>>
       /\ UNCHANGED <<valVars, svcVars>>
       /\ UNCHANGED convVars

GenTick ==
    /\ now + GenStep <= GenHorizon
    /\ AdvanceTime(GenStep)

GenNext ==
    \/ \E p \in Procs, t \in Texts : GenStart(p, t)
    \/ \E p \in Procs : GenGet(p)
    \/ \E p \in Procs : GenHistory(p)
    \/ \E p \in Procs : GenLlm(p)
    \/ \E p \in Procs : GenSet(p)
    \/ \E p \in Procs, t \in Texts : DeleteStart(p, t)
    \/ \E p \in Procs : DeleteRun(p)
    \/ \E p \in Procs : ProcReturn(p)
    \/ CacheFail
    \/ CacheRecover
    \/ GenTick

GenInit == ValIdle /\ StoreIdle /\ hash_seed \in SaltAssignments

SpecGen == GenInit /\ [][GenNext]_vars

(***************************************************************************)
(* LLMService._get_conversation_history and _save_conversation_history     *)
(***************************************************************************)
\* turns a caller appends to one conversation in one run
MaxTurns == 12

\* a caller appends the next turn to its message list and saves the list
ConvAppend(c) ==
    LET messages == Append(chat[c].messages, Turn(Len(chat[c].messages) + 1))
        saved == save_conversation_history(conv, c, messages, now, cacheUp)
    IN /\ Len(chat[c].messages) < MaxTurns
       /\ conv' = saved.store
       /\ chat' = [chat EXCEPT ![c] = [@ EXCEPT !.messages = messages,
                                                !.stored = (saved.ret = "True")]]
       /\ UNCHANGED qres
       /\ UNCHANGED sysVars
       /\ UNCHANGED <<valVars, svcVars>>

\* a caller reads the history back
ConvRead(c) ==
    /\ chat' = [chat EXCEPT ![c].read = get_conversation_history(conv, c, cacheUp)]
    /\ UNCHANGED <<conv, qres>>
    /\ UNCHANGED sysVars
    /\ UNCHANGED <<valVars, svcVars>>

ConvNext ==
    \/ \E c \in ConvIds : ConvAppend(c)
    \/ \E c \in ConvIds : ConvRead(c)
    \/ CacheFail
    \/ CacheRecover
    \/ GenTick

ConvInit == ValIdle /\ SysIdle

SpecConv == ConvInit /\ [][ConvNext]_vars

(***************************************************************************)
(* process_query: the chat request pipeline                                *)
(***************************************************************************)
\* requests started in one run
MaxRequests == 2

\* (mutant) the rejection branch left out
ProceedsToExecute_Always(validation) == TRUE

\* `if not validation_result["is_valid"]: return ...`, else go on to execute_query
ProceedsToExecute(validation) == validation.is_valid

\* the texts generate_sql can hand to process_query, and what validate_query and
\* execute_query do with each of them
GeneratedTexts == {StrStrip(content) : content \in LlmContents}
ValidationOf == [sql_query \in GeneratedTexts |-> validate_query(sql_query)]
ExecutionsOf == [sql_query \in GeneratedTexts |-> ExecuteOutcomes(sql_query, MAX_RESULT_ROWS)]

\* the messages of the requests
Messages == {"top projects"}

\* POST /query with message = text, served as "test_user"
PqStart(p, text) == GenBegin(p, "process_query", text, MaxRequests)

\* validation_result = await query_validator.validate_query(sql_query), and the
\* rejection branch
PqValidate(p) ==
    LET r == proc[p]
        validation == ValidationOf[r.sql]
        r1 == [r EXCEPT !.vtext = r.sql, !.vres = validation]
    IN /\ r.pc = "validate"
       /\ proc' = [proc EXCEPT ![p] =
                      IF ProceedsToExecute(validation)
                      THEN [r1 EXCEPT !.pc = "execute"]
                      ELSE [r1 EXCEPT !.pc = "done",
                                      !.resp = RejectionResponse(validation.error)]]
       /\ UNCHANGED <<now, cacheUp, rl, gen, hash_seed, started, llm_calls, win>>
       /\ UNCHANGED <<valVars, svcVars>>
       /\ UNCHANGED convVars

\* results = await execute_query(sql_query, limit=settings.MAX_RESULT_ROWS), the
\* response message and the last return; what execute_query raises goes to the
\* except branch
PqExecute(p) ==
    LET r == proc[p]
    IN /\ r.pc = "execute"
       /\ \E results \in ExecutionsOf[r.sql] :
             proc' = [proc EXCEPT ![p] =
                         [r EXCEPT !.xarg = r.sql,
                                   !.xres = results,
                                   !.pc = "done",
                                   !.resp = IF results.outcome = "raised"
                                            THEN ExceptHandler(results.error)
                                            ELSE SuccessResponse]]
       /\ UNCHANGED <<now, cacheUp, rl, gen, hash_seed, started, llm_calls, win>>
       /\ UNCHANGED <<valVars, svcVars>>
       /\ UNCHANGED convVars

\* the rate-limit key of a user who made no call yet, or who has used up the
\* limit in the window that starts now
UsedUpKey == [count |-> RATE_LIMIT_PER_MINUTE, expireAt |-> RATE_LIMIT_EXPIRE]

Init ==
    /\ ValIdle
    /\ now = 0
    /\ cacheUp = TRUE
    /\ rl \in [Users -> {NoKey, UsedUpKey}]
    /\ conv = [c \in ConvIds |-> NoEntry]
    /\ chat = [c \in ConvIds |-> NoChat]
    /\ qres = NoResults
    /\ win = [u \in Users |-> NoWindow]
    /\ gen = [k \in GenKeys |-> NoEntry]
    /\ proc = [p \in Procs |-> IdleProc]
    /\ hash_seed = [p \in Procs |-> 1]
    /\ started = 0
    /\ llm_calls = [t \in Texts |-> NoCalls]

Next ==
    \/ \E p \in Procs, t \in Messages : PqStart(p, t)
    \/ \E p \in Procs : RateIncr(p)
    \/ \E p \in Procs : RateExpire(p)
    \/ \E p \in Procs : GenGet(p)
    \/ \E p \in Procs : GenHistory(p)
    \/ \E p \in Procs : GenLlm(p)
    \/ \E p \in Procs : GenSet(p)
    \/ \E p \in Procs : PqValidate(p)
    \/ \E p \in Procs : PqExecute(p)
    \/ \E p \in Procs : ProcReturn(p)
    \/ CacheFail
    \/ CacheRecover

Spec == Init /\ [][Next]_vars

(***************************************************************************)
(* execute_query in time: the await on the database                        *)
(***************************************************************************)
\* settings.MAX_QUERY_EXECUTION_TIME, in seconds
MAX_QUERY_EXECUTION_TIME == 300

\* the clock of the execution runs: its step and its last instant
ExecStep == 100
ExecHorizon == 600

\* a caller calls execute_query(query, limit=settings.MAX_RESULT_ROWS): the
\* pre-checks raise, or the text goes to the database and the call awaits
\* conn.execute(text(query))
ExecBegin(p, query) ==
    LET limit == MAX_RESULT_ROWS
        pre == execute_query_prepare(query, limit)
        r == [IdleProc EXCEPT !.top = "execute_query", !.xarg = query, !.xlimit = limit,
                              !.xstart = now]
    IN /\ SlotFree(p)
       /\ started < MaxRequests
       /\ started' = started + 1
       /\ proc' = [proc EXCEPT ![p] =
                      IF pre.raised
                      THEN [r EXCEPT !.xres = ExecRaised(<<>>, limit, pre.error), !.pc = "done"]
                      ELSE [r EXCEPT !.pc = "x_run"]]
       /\ UNCHANGED <<now, cacheUp, rl, gen, hash_seed, llm_calls, win>>
       /\ UNCHANGED <<valVars, svcVars>>
       /\ UNCHANGED convVars

\* the database answers, whenever it does: execute_query returns or raises
ExecEnd(p) ==
    LET r == proc[p]
    IN /\ r.pc = "x_run"
       /\ \E results \in ExecutionsOf[r.xarg] :
             proc' = [proc EXCEPT ![p] = [r EXCEPT !.xres = results, !.pc = "done"]]
       /\ UNCHANGED <<now, cacheUp, rl, gen, hash_seed, started, llm_calls, win>>
       /\ UNCHANGED <<valVars, svcVars>>
       /\ UNCHANGED convVars

ExecTick ==
    /\ now + ExecStep <= ExecHorizon
    /\ AdvanceTime(ExecStep)

ExecNext ==
    \/ \E p \in Procs, query \in GeneratedTexts : ExecBegin(p, query)
    \/ \E p \in Procs : ExecEnd(p)
    \/ \E p \in Procs : ProcReturn(p)
    \/ ExecTick

ExecInit == ValIdle /\ SysIdle

SpecExec == ExecInit /\ [][ExecNext]_vars

(***************************************************************************)
(* The validator and the gateway on one text                               *)
(***************************************************************************)
ValInit == ValIdle /\ SysIdle

\* the caller's text grows by one fragment
AppendFragment ==
    /\ vphase = "input"
    /\ nfrags < MaxFrags
    /\ \E f \in Fragments : inp' = inp \o f
    /\ nfrags' = nfrags + 1
    /\ UNCHANGED <<pad, vphase, validation_result, exec_result>>
    /\ UNCHANGED svcVars
    /\ UNCHANGED sysVars
    /\ UNCHANGED convVars

\* validation_result = await query_validator.validate_query(sql_query)
Validate ==
    /\ vphase = "input"
    /\ validation_result' = validate_query_try(inp, pad)
    /\ vphase' = "validated"
    /\ UNCHANGED <<inp, nfrags, pad, exec_result>>
    /\ UNCHANGED svcVars
    /\ UNCHANGED sysVars
    /\ UNCHANGED convVars

\* results = await execute_query(sql_query, limit=...), reached with an accepted text
Execute ==
    /\ vphase = "validated"
    /\ validation_result.is_valid
    /\ \E limit \in RowCaps : exec_result' \in ExecuteOutcomes(inp, limit)
    /\ vphase' = "executed"
    /\ UNCHANGED <<inp, nfrags, pad, validation_result>>
    /\ UNCHANGED svcVars
    /\ UNCHANGED sysVars
    /\ UNCHANGED convVars

ValNext == AppendFragment \/ Validate \/ Execute

SpecVal == ValInit /\ [][ValNext]_vars

(***************************************************************************)
(* The validator on whole texts, long LIMIT numbers among them             *)
(***************************************************************************)
F_where == <<" ", "w", "h", "e", "r", "e", " ", "i", "d", " ", ">", " ", "1">>
F_explain == <<"e", "x", "p", "l", "a", "i", "n", " ">>

TextHeads == {<<>>, F_select_id, F_spaces \o F_select_id, F_paren \o F_select_id, F_explain}
TextBodies ==
    {<<>>, F_from_users, F_from_users_upper \o F_join_leads, F_from_pay,
     F_from_users \o F_where, F_from_users \o F_paren, F_from_users \o F_updated_at,
     F_from_users \o F_or_1_eq_1}
TextTails == {<<>>, F_limit_5, F_limit_20000, F_rate_limit, F_limit_5 \o <<"\n">>}
WholeTexts == {h \o b \o t : h \in TextHeads, b \in TextBodies, t \in TextTails}

\* nines after the LIMIT number: none, up to the digits int() converts, beyond
PadLengths == {0, INT_MAX_STR_DIGITS - 1, INT_MAX_STR_DIGITS}

TextInit ==
    /\ inp \in WholeTexts
    /\ nfrags = 0
    /\ pad \in PadLengths
    /\ pad # 0 => ReSearchLimit(StrUpper(inp)).ok
    /\ vphase = "input"
    /\ validation_result = NoValidation
    /\ exec_result = ExecNotCalled
    /\ SysIdle
    /\ SvcStarted

\* the accepted texts written out in full go on to execute_query
ExecuteText == pad = 0 /\ Execute

TextNext == Validate \/ ExecuteText

SpecText == TextInit /\ [][TextNext]_vars

(***************************************************************************)
(* The table endpoints and the health endpoints                            *)
(***************************************************************************)
\* the text of get_table_schema's query up to the schema name, between the schema
\* name and the table name, and after the table name
S_SCHEMA_QUERY_HEAD ==
    <<"\n", " ", " ", " ", " ", "S", "E", "L", "E", "C", "T", " ", "\n", " ", " ", " ", " ",
      " ", " ", " ", " ", "c", "o", "l", "u", "m", "n", "_", "n", "a", "m", "e", ",", "\n",
      " ", " ", " ", " ", " ", " ", " ", " ", "d", "a", "t", "a", "_", "t", "y", "p", "e", ",",
      "\n", " ", " ", " ", " ", " ", " ", " ", " ", "i", "s", "_", "n", "u", "l", "l", "a",
      "b", "l", "e", ",", "\n", " ", " ", " ", " ", " ", " ", " ", " ", "c", "o", "l", "u",
      "m", "n", "_", "d", "e", "f", "a", "u", "l", "t", "\n", " ", " ", " ", " ", "F", "R",
      "O", "M", " ", "i", "n", "f", "o", "r", "m", "a", "t", "i", "o", "n", "_", "s", "c", "h",
      "e", "m", "a", ".", "c", "o", "l", "u", "m", "n", "s", " ", "\n", " ", " ", " ", " ",
      "W", "H", "E", "R", "E", " ", "t", "a", "b", "l", "e", "_", "s", "c", "h", "e", "m", "a",
      " ", "=", " ", "'">>
S_SCHEMA_QUERY_MID ==
    <<"'", " ", "\n", " ", " ", " ", " ", "A", "N", "D", " ", "t", "a", "b", "l", "e", "_",
      "n", "a", "m", "e", " ", "=", " ", "'">>
S_SCHEMA_QUERY_TAIL ==
    <<"'", "\n", " ", " ", " ", " ", "O", "R", "D", "E", "R", " ", "B", "Y", " ", "o", "r",
      "d", "i", "n", "a", "l", "_", "p", "o", "s", "i", "t", "i", "o", "n", "\n", " ", " ",
      " ", " ">>
S_SELECT_STAR_FROM == <<"S", "E", "L", "E", "C", "T", " ", "*", " ", "F", "R", "O", "M", " ">>
N_bi_reports == <<"b", "i", "_", "r", "e", "p", "o", "r", "t", "s">>
N_hr == <<"h", "r">>
N_users == <<"u", "s", "e", "r", "s">>
N_leads == <<"l", "e", "a", "d", "s">>
N_pay == <<"p", "a", "y">>

\* the path and query parameters the table endpoints are called with
SchemaNames == {N_bi_reports, N_hr}
TableNames == {N_users, N_leads, N_pay}
SampleLimits == {1, 5}

\* validate_table_access: f"{schema}.{table_name}" in settings.READONLY_TABLES
validate_table_access(table_name, schema) ==
    (schema \o <<".">> \o table_name) \in READONLY_TABLES

\* get_table_sample: the text it hands to execute_query, without a limit argument
get_table_sample(table_name, schema, limit) ==
    S_SELECT_STAR_FROM \o schema \o <<".">> \o table_name \o S_SP_LIMIT_SP \o DecimalStr(limit)

\* get_table_schema: the text it hands to execute_query, without a limit argument
get_table_schema(table_name, schema) ==
    S_SCHEMA_QUERY_HEAD \o schema \o S_SCHEMA_QUERY_MID \o table_name \o S_SCHEMA_QUERY_TAIL

\* what conn.execute may do for an endpoint: async_engine.begin() fails without
\* an engine, and nothing answers while the database is down
SvcDbOutcomes(query) ==
    IF async_engine = "None" \/ ~db_up
    THEN {[kind |-> "error", rows |-> 0]}
    ELSE DbOutcomes(query)

\* the try block of a table endpoint: the access check raises HTTPException(403),
\* execute_query raises ValueError, or the results are returned
TableTry(table, schema, query, db) ==
    IF ~validate_table_access(table, schema)
    THEN [raised |-> TRUE, status |-> 403, detail |-> "Access to this table is not allowed",
          ran |-> <<>>, row_count |-> 0]
    ELSE LET x == execute_query(query, 0, db)
         IN IF x.outcome = "raised"
            THEN [raised |-> TRUE, status |-> 0, detail |-> x.error.msg,
                  ran |-> query, row_count |-> 0]
            ELSE [raised |-> FALSE, status |-> 200, detail |-> "",
                  ran |-> query, row_count |-> x.row_count]

\* except Exception as e: raise HTTPException(status_code=500, detail=...);
\* HTTPException is an Exception, so the 403 of the try block lands here too
TableExcept(t, detail) ==
    IF t.raised THEN [t EXCEPT !.status = 500, !.detail = detail] ELSE t

\* GET /sample/{schema}/{table}
get_table_sample_data(schema, table, limit, db) ==
    TableExcept(TableTry(table, schema, get_table_sample(table, schema, limit), db),
                "Failed to get sample data")

\* GET /schema/{schema}/{table}
get_table_schema_info(schema, table, db) ==
    TableExcept(TableTry(table, schema, get_table_schema(table, schema), db),
                "Failed to get table schema")

TableReply(endpoint, schema, table, t) ==
    [endpoint |-> endpoint, status |-> t.status, detail |-> t.detail,
     table |-> schema \o <<".">> \o table, ran |-> t.ran, row_count |-> t.row_count]

GetTableSampleData ==
    /\ \E schema \in SchemaNames, table \in TableNames, limit \in SampleLimits :
          LET query == get_table_sample(table, schema, limit)
          IN \E db \in SvcDbOutcomes(execute_query_prepare(query, 0).query) :
                reply' = TableReply("sample", schema, table,
                                    get_table_sample_data(schema, table, limit, db))
    /\ UNCHANGED <<async_engine, db_up, db_tested>>
    /\ UNCHANGED <<valVars, sysVars, convVars>>

GetTableSchemaInfo ==
    /\ \E schema \in SchemaNames, table \in TableNames :
          LET query == get_table_schema(table, schema)
          IN \E db \in SvcDbOutcomes(execute_query_prepare(query, 0).query) :
                reply' = TableReply("schema", schema, table,
                                    get_table_schema_info(schema, table, db))
    /\ UNCHANGED <<async_engine, db_up, db_tested>>
    /\ UNCHANGED <<valVars, sysVars, convVars>>

\* init_db on the global async_engine, the database being up or not: it returns
\* at once when the global is set; otherwise it assigns the global (line 36) and
\* then opens the inspector and the test connection (lines 56-60), re-raising
\* what they raise
init_db(engine, up) ==
    IF engine # "None" THEN [async_engine |-> engine, raised |-> FALSE, connected |-> FALSE]
    ELSE IF up THEN [async_engine |-> "engine", raised |-> FALSE, connected |-> TRUE]
    ELSE [async_engine |-> "engine", raised |-> TRUE, connected |-> FALSE]

HealthReply(endpoint, status, detail) ==
    [endpoint |-> endpoint, status |-> status, detail |-> detail, table |-> <<>>,
     ran |-> <<>>, row_count |-> 0]

\* GET /ready
readiness_check(r) ==
    IF r.raised THEN HealthReply("ready", 503, "Service not ready")
    ELSE HealthReply("ready", 200, "ready")

\* GET /detailed: the status of the database component
detailed_health_check(r) ==
    IF r.raised THEN HealthReply("detailed", 200, "unhealthy")
    ELSE HealthReply("detailed", 200, "healthy")

ReadinessCheck ==
    LET r == init_db(async_engine, db_up)
    IN /\ async_engine' = r.async_engine
       /\ db_tested' = (db_tested \/ r.connected)
       /\ reply' = readiness_check(r)
       /\ UNCHANGED db_up
       /\ UNCHANGED <<valVars, sysVars, convVars>>

DetailedHealthCheck ==
    LET r == init_db(async_engine, db_up)
    IN /\ async_engine' = r.async_engine
       /\ db_tested' = (db_tested \/ r.connected)
       /\ reply' = detailed_health_check(r)
       /\ UNCHANGED db_up
       /\ UNCHANGED <<valVars, sysVars, convVars>>

\* the database goes down, and comes back
DbDown ==
    /\ db_up
    /\ db_up' = FALSE
    /\ UNCHANGED <<async_engine, db_tested, reply>>
    /\ UNCHANGED <<valVars, sysVars, convVars>>

DbBack ==
    /\ ~db_up
    /\ db_up' = TRUE
    /\ UNCHANGED <<async_engine, db_tested, reply>>
    /\ UNCHANGED <<valVars, sysVars, convVars>>

SvcNext ==
    \/ GetTableSampleData
    \/ GetTableSchemaInfo
    \/ ReadinessCheck
    \/ DetailedHealthCheck
    \/ DbDown
    \/ DbBack

\* the module as loaded, served either after the lifespan hook has run init_db
\* or without it
SvcInit ==
    /\ NoValidatorRun
    /\ SysIdle
    /\ reply = NoReply
    /\ db_up \in BOOLEAN
    /\ \/ async_engine = "None" /\ db_tested = FALSE
       \/ async_engine = "engine" /\ db_tested = TRUE

SpecSvc == SvcInit /\ [][SvcNext]_vars

(***************************************************************************)
(* Claims about the validator and the gateway                              *)
(***************************************************************************)
Validated == vphase \in {"validated", "executed"}

\* a denylisted keyword occurs in text in some letter case, at some position
KeywordOccurs(kw, text) == \E i \in 1..Len(text) : OccursAtIgnoreCase(kw, text, i)

\* C1: every text that contains a denylisted keyword, in any letter case and at
\* any position, is rejected with an error that names a denylisted keyword
\* occurring in the text.
C1_DenylistedKeywordRejected ==
    (Validated /\ \E k \in DOMAIN dangerous_keywords : KeywordOccurs(dangerous_keywords[k], inp))
    => /\ ~validation_result.is_valid
       /\ validation_result.error.msg = "Operation is not allowed"
       /\ validation_result.error.arg \in Range(dangerous_keywords)
       /\ KeywordOccurs(validation_result.error.arg, inp)

\* C1 witness: a keyword written in lower or mixed case, not at the start of the
\* text, has been rejected by name.
C1_Witness ==
    /\ Validated
    /\ ~validation_result.is_valid
    /\ validation_result.error.msg = "Operation is not allowed"
    /\ ~StrContains(validation_result.error.arg, inp)
    /\ KeywordOccurs(validation_result.error.arg, inp)
    /\ ~OccursAtIgnoreCase(validation_result.error.arg, inp, 1)

\* The schema.table references of the FROM and JOIN clauses of a text: the
\* qualified name after FROM or JOIN and the qualified names that continue it
\* in a comma-separated list (FROM a.b, c.d), left to right.
ListItemAt(s, e) ==
    LET a == RunEnd(s, e, IsSpace)
    IN IF a > Len(s) THEN NoRefMatch
       ELSE IF s[a] # "," THEN NoRefMatch
       ELSE QualifiedNameAt(s, RunEnd(s, a + 1, IsSpace))
RECURSIVE FromJoinRefs(_, _)
RECURSIVE FromJoinListTail(_, _)
FromJoinRefs(s, i) ==
    IF i > Len(s) THEN <<>>
    ELSE LET f == ReMatchRefAt(S_FROM, s, i)
             m == IF f.ok THEN f ELSE ReMatchRefAt(S_JOIN, s, i)
         IN IF m.ok THEN <<m.ref>> \o FromJoinListTail(s, m.end)
            ELSE FromJoinRefs(s, i + 1)
FromJoinListTail(s, e) ==
    LET it == ListItemAt(s, e)
    IN IF it.ok THEN <<it.ref>> \o FromJoinListTail(s, it.end)
       ELSE FromJoinRefs(s, e)
ReferencedTables(text) == Range(FromJoinRefs(text, 1))

\* C2: every text in which some schema.table reference of a FROM or JOIN clause
\* is not in READONLY_TABLES is rejected, one unlisted reference among listed
\* ones being enough.
C2_UnlistedReferenceRejected ==
    (Validated /\ \E ref \in ReferencedTables(inp) : ref \notin READONLY_TABLES)
    => ~validation_result.is_valid

\* C4: an execution that returns hands back at most rowCap rows, whether or not
\* the text already had a LIMIT clause.
C4_RowCapRespected ==
    (vphase = "executed" /\ exec_result.outcome = "returned")
    => exec_result.row_count <= exec_result.limit

\* C5: execute_query never raises past its boundary; its caller always
\* receives a structured result.
C5_ExecuteNeverRaises ==
    vphase = "executed" => exec_result.outcome = "returned"

(***************************************************************************)
(* Claims about the rate limiter                                           *)
(***************************************************************************)
RateCallDone(p) == proc[p].pc = "done" /\ proc[p].top = "check_rate_limit"

\* C7: with the cache reachable, the k-th call a user issues within 60 seconds
\* of the first call of a window returns true exactly when k <= limit (so the
\* first limit calls pass and the (limit+1)-th is refused), and a call that
\* finds the counter expired returns true again.
C7_WindowLimit ==
    \A p \in Procs :
        (RateCallDone(p) /\ proc[p].clean)
        => /\ proc[p].inwin =>
                  (proc[p].allowed = "yes" <=> proc[p].ord <= RATE_LIMIT_PER_MINUTE)
           /\ proc[p].reopened => proc[p].allowed = "yes"

\* C7 witness: after a call was refused, the counter has expired and a call of
\* the following window has been allowed.
C7_Witness ==
    \E p \in Procs :
        /\ RateCallDone(p)
        /\ proc[p].clean
        /\ proc[p].reopened
        /\ proc[p].allowed = "yes"
        /\ win[proc[p].user].denied

\* C8: a check_rate_limit call during which a cache operation of the increment
\* failed returns true, for every user and whatever the counter holds.
C8_FailOpen ==
    \A p \in Procs :
        (RateCallDone(p) /\ proc[p].cache_failed) => proc[p].allowed = "yes"

\* C8 witness: the counter is over the limit, the cache failed during a call,
\* and the call was allowed.
C8_Witness ==
    \E p \in Procs :
        /\ RateCallDone(p)
        /\ proc[p].cache_failed
        /\ proc[p].allowed = "yes"
        /\ rl[proc[p].user].count > RATE_LIMIT_PER_MINUTE

(***************************************************************************)
(* Claims about generate_sql and the cache                                 *)
(***************************************************************************)
GenCallDone(p) == proc[p].pc = "done" /\ proc[p].top = "generate_sql"

\* a step of the call in slot p taken while Redis does not answer
StepWhileDown(p) == ~cacheUp /\ proc'[p] # proc[p] /\ proc[p].pc # "idle"

\* C9: while the cache store is down, get_cache gives a miss, set_cache and
\* delete_cache return False and leave the store as it is, none of them raises,
\* and generate_sql goes through the cache-miss path and returns the stripped
\* answer of the completion service whenever that service answers.
C9_CacheDownDegrades ==
    [][\A p \in Procs :
          StepWhileDown(p)
          => /\ gen' = gen
             /\ proc[p].pc = "g_get" => (proc'[p].pc = "g_hist" /\ ~proc'[p].hit)
             /\ proc[p].pc = "g_hist" => proc'[p].pc = "g_llm"
             /\ (proc[p].pc = "g_llm" /\ proc'[p].llm = "ok") => proc'[p].pc = "g_set"
             /\ proc[p].pc = "g_set" => /\ proc'[p].ret = "False"
                                        /\ proc'[p].gen_out = "returned"
                                        /\ proc'[p].sql = StrStrip(proc[p].content)
             /\ proc[p].pc = "c_del" => (proc'[p].ret = "False" /\ proc'[p].pc = "done")]_vars

\* C9 witness: a generate_sql call found the cache down at its get and at its
\* set, and returned a non-empty text that is not in the store.
C9_Witness ==
    \E p \in Procs :
        /\ GenCallDone(p)
        /\ proc[p].get_down
        /\ proc[p].set_down
        /\ ~proc[p].hit
        /\ proc[p].gen_out = "returned"
        /\ proc[p].sql # <<>>
        /\ ~gen[CacheKeyOf(p)].present

\* C10: the generate_sql calls made with one text within the generation-cache
\* TTL of the first issue at most one completion-service call, however the
\* calls interleave -- stated for calls served under one hash salt, with the
\* cache reachable throughout, every completion-service call answering a
\* non-empty text, and no deletion of the entry.
C10_AtMostOneCompletionCall ==
    \A t \in Texts :
        (/\ llm_calls[t].firstAt # -1
         /\ now < llm_calls[t].firstAt + SQL_GENERATION_EXPIRE
         /\ ~llm_calls[t].excused)
        => llm_calls[t].n <= 1

\* the step taken is the completion-service call of the generate_sql in slot p
InvokesCompletion(p) == proc[p].pc = "g_llm" /\ proc'[p] # proc[p]

DbContacted(p) == proc[p].xres.outcome # "none" /\ proc[p].xres.query # <<>>

\* C3: in a chat request the database is contacted with the generated text only
\* after validate_query returned is_valid = true for that same text in the same
\* request, whether the text came from the completion service or from the
\* generation cache.
C3_ExecutedOnlyIfValidated ==
    \A p \in Procs :
        DbContacted(p)
        => /\ proc[p].vres.is_valid
           /\ proc[p].vtext = proc[p].xarg
           /\ proc[p].xarg = proc[p].sql
           /\ proc[p].xarg \in GeneratedTexts
           /\ ValidationOf[proc[p].xarg].is_valid

\* C3 witness: a request whose text was served from the generation cache has
\* run it on the database.
C3_Witness ==
    \E p \in Procs :
        /\ DbContacted(p)
        /\ proc[p].hit
        /\ proc[p].xres.outcome = "returned"

\* C6: a request whose generated text validate_query rejected answers with the
\* validator's own error reason, never with a generic error response.
C6_RejectionReasonSurfaced ==
    \A p \in Procs :
        (/\ proc[p].pc = "done"
         /\ proc[p].top = "process_query"
         /\ proc[p].vtext = proc[p].sql
         /\ proc[p].gen_out = "returned"
         /\ ~ValidationOf[proc[p].sql].is_valid)
        => /\ proc[p].resp.kind # "generic_error"
           /\ proc[p].resp.reason = proc[p].vres.error

(***************************************************************************)
(* Claims about the conversation context                                   *)
(***************************************************************************)
\* the turns stored under a conversation id
StoredTurns(c) == IF conv[c].present THEN conv[c].value.items ELSE <<>>

GeneratedFresh(p) ==
    /\ proc[p].gen_out = "returned"
    /\ ~proc[p].hit
    /\ proc[p].llm = "ok"
    /\ proc[p].sql # <<>>
    /\ ~proc[p].get_down
    /\ ~proc[p].set_down

\* C12: once generate_sql has missed the cache and returned the completion
\* service's text, the generation cache holds an entry for the text's key that
\* expires within an hour, and the conversation context of the call's
\* conversation id holds the turn.
C12_GenerationPersisted ==
    \A p \in Procs :
        GeneratedFresh(p)
        => /\ gen[CacheKeyOf(p)].present
           /\ gen[CacheKeyOf(p)].expireAt <= now + SQL_GENERATION_EXPIRE
           /\ \E i \in DOMAIN StoredTurns(proc[p].conversation_id) :
                 StoredTurns(proc[p].conversation_id)[i].content = proc[p].text

(***************************************************************************)
(* Claims about execution time and failures                                *)
(***************************************************************************)
\* C13: no execution stays in flight longer than MAX_QUERY_EXECUTION_TIME: a
\* query that runs past the bound has been cancelled and reported.
C13_NoExecutionPastBound ==
    \A p \in Procs :
        proc[p].pc = "x_run" => now - proc[p].xstart <= MAX_QUERY_EXECUTION_TIME

\* a finished chat request one of whose steps faulted: the completion call failed,
\* or execute_query raised (its pre-checks, or the database)
Faulted(p) ==
    /\ proc[p].top = "process_query"
    /\ proc[p].pc = "done"
    /\ (proc[p].llm = "failed" \/ proc[p].xres.outcome = "raised")

\* the exception the faulting step raised
RawFault(p) ==
    IF proc[p].llm = "failed" THEN Err("Failed to generate SQL", <<>>) ELSE proc[p].xres.error

\* C14: when a step of a chat request faults (the completion call, or the
\* execution on the database), the client gets the generic failure, status 500
\* with the fixed text, and the text of the raised error is not in the response
C14_FaultGivesGenericFailure ==
    \A p \in Procs :
        Faulted(p) =>
            /\ proc[p].resp = GenericError
            /\ proc[p].resp.reason # RawFault(p)

\* a request whose query passed validation and failed on the database has been
\* answered with the generic failure
C14_Witness ==
    \E p \in Procs :
        /\ Faulted(p)
        /\ proc[p].vres.is_valid
        /\ proc[p].xres.error = Err("Query execution failed", <<>>)
        /\ proc[p].resp.status = 500

\* the chat request in slot p got the success response with its results
Succeeded(p) ==
    /\ proc[p].top = "process_query"
    /\ proc[p].pc = "done"
    /\ proc[p].resp.kind = "success"

\* C16: once a chat request has its success response, the result of its
\* validated query is in the result cache under the executed SQL, with the
\* 30-minute expiry, which is shorter than the generation cache's
C16_ResultCached ==
    \A p \in Procs :
        Succeeded(p) =>
            /\ proc[p].sql \in DOMAIN qres
            /\ qres[proc[p].sql].value = proc[p].xres
            /\ qres[proc[p].sql].expireAt <= now + QUERY_RESULT_EXPIRE
            /\ QUERY_RESULT_EXPIRE < SQL_GENERATION_EXPIRE

\* check_rate_limit returned False to the chat request in slot p
Refused(p) == proc[p].top = "process_query" /\ proc[p].allowed = "no"

\* C17: a chat request for which check_rate_limit returned False is over, its
\* answer is the 429 "Rate limit exceeded", and it has made no cache lookup, no
\* completion-service call, no validation and no call of execute_query
C17_RefusedDoesNothing ==
    \A p \in Procs :
        Refused(p) =>
            /\ proc[p].pc = "done"
            /\ proc[p].resp = RateLimited
            /\ proc[p].resp.status = 429
            /\ proc[p].gen_out = "none"
            /\ proc[p].llm = "none"
            /\ proc[p].vres = NoValidation
            /\ proc[p].xres = ExecNotCalled

\* a chat request found the count over the limit and was refused
C17_Witness ==
    \E p \in Procs :
        /\ Refused(p)
        /\ proc[p].cur > RATE_LIMIT_PER_MINUTE
        /\ proc[p].resp.status = 429

(***************************************************************************)
(* Claims about the expiry of the rate-limit key                           *)
(***************************************************************************)
\* C18: the expiry of a rate-limit key is set once, by the first increment of
\* its window: no step moves the expiry of a key that has one and stays
C18_ExpiryNotExtended ==
    [][\A u \in Users :
          (rl[u].expireAt # -1 /\ rl'[u].count # 0) => rl'[u].expireAt = rl[u].expireAt]_vars

\* C19: a rate-limit key that exists carries an expiry, in every state
C19_KeyCarriesExpiry ==
    \A u \in Users : rl[u].count # 0 => rl[u].expireAt # -1

(***************************************************************************)
(* Claims about the order of the validation stages                         *)
(***************************************************************************)
\* the stages of validate_query, numbered in the order of the claim: 1 non-empty,
\* 2 denylist, 3 injection patterns, 4 allow-list; each taken on its own
StageFails(k, sql_query) ==
    IF k = 1 THEN StrStrip(sql_query) = <<>>
    ELSE IF k = 2
    THEN FirstKeywordIn(dangerous_keywords, StrStrip(StrUpper(sql_query))) # 0
    ELSE IF k = 3 THEN MatchesInjectionPattern(StrStrip(StrUpper(sql_query)))
    ELSE ~validate_schema_access(sql_query).is_valid

StageError(k) ==
    IF k = 1 THEN "Query cannot be empty"
    ELSE IF k = 2 THEN "Operation is not allowed"
    ELSE IF k = 3 THEN "Query contains potentially malicious patterns"
    ELSE "Access to table is not allowed"

\* the earliest stage that fails on the text, 0 when none does
EarliestFailingStage(sql_query) ==
    IF StageFails(1, sql_query) THEN 1
    ELSE IF StageFails(2, sql_query) THEN 2
    ELSE IF StageFails(3, sql_query) THEN 3
    ELSE IF StageFails(4, sql_query) THEN 4
    ELSE 0

\* C20: the error validate_query returns is that of the earliest stage, in the
\* order non-empty, denylist, injection patterns, allow-list, that fails on the
\* text; a rejection carries no warning; a text no stage fails on is valid
\* (stated where validate_query has just returned)
C20_EarliestFailingStageReported ==
    vphase = "validated" =>
        LET earliest == EarliestFailingStage(inp)
        IN IF earliest = 0
           THEN validation_result.is_valid /\ validation_result.error = NoError
           ELSE /\ ~validation_result.is_valid
                /\ validation_result.error.msg = StageError(earliest)
                /\ validation_result.warnings = <<>>

\* a text with a denylisted keyword and a table outside the allow-list, which
\* would also get the LIMIT warning, is rejected for the keyword, with no warning
C20_Witness ==
    /\ Validated
    /\ StageFails(2, inp)
    /\ StageFails(4, inp)
    /\ ~validate_query_limits(inp).is_valid
    /\ validation_result.error.msg = "Operation is not allowed"
    /\ validation_result.warnings = <<>>

(***************************************************************************)
(* Claims about the soft stages and the shape of the result                *)
(***************************************************************************)
\* the defects the structure check and the limit check look for, on the text
\* with n more nines after its first LIMIT number
StructureDefect(sql_query) ==
    \/ ~StrStartsWith(StrStrip(StrUpper(sql_query)), S_SELECT)
    \/ ~StrContains(S_FROM, StrUpper(sql_query))
    \/ StrCount(sql_query, "(") # StrCount(sql_query, ")")

LimitDefect(sql_query, n) ==
    \/ ~StrContains(S_LIMIT, StrUpper(sql_query))
    \/ /\ ReSearchLimit(StrUpper(sql_query)).ok
       /\ (n > 0 \/ ReSearchLimit(StrUpper(sql_query)).value > MAX_RESULT_ROWS)

\* C21: a text that passes the stages non-empty, denylist, injection patterns
\* and allow-list is returned with is_valid = true and no error, whatever its
\* structure and its LIMIT; a defect of structure or of LIMIT shows as a warning
C21_SoftStagesNeverReject ==
    (vphase = "validated" /\ EarliestFailingStage(inp) = 0)
    => /\ validation_result.is_valid
       /\ validation_result.error = NoError
       /\ (StructureDefect(inp) \/ LimitDefect(inp, pad)) => validation_result.warnings # <<>>

(***************************************************************************)
(* Claims about the injection patterns                                     *)
(***************************************************************************)
\* the text has one of the injection shapes: the first part of a pattern, and
\* after it, any characters further, the second part
HasInjectionShape(text) ==
    \E k \in DOMAIN injection_patterns :
        \E i, j \in 1..Len(text) :
            /\ OccursAt(injection_patterns[k][1], text, i)
            /\ OccursAt(injection_patterns[k][2], text, j)
            /\ j >= i + Len(injection_patterns[k][1])

\* C22: a text that passes the non-empty and denylist stages and has an
\* injection shape, whatever separates the two parts of the shape, is rejected
\* with the malicious-pattern error
C22_InjectionShapeRejected ==
    (/\ vphase = "validated"
     /\ ~StageFails(1, inp)
     /\ ~StageFails(2, inp)
     /\ HasInjectionShape(StrUpper(inp)))
    => /\ ~validation_result.is_valid
       /\ validation_result.error.msg = "Query contains potentially malicious patterns"

(***************************************************************************)
(* Claims about faults inside validate_query                               *)
(***************************************************************************)
\* the limit check raises on the text: the stages before it pass, and its first
\* LIMIT number has more digits than int() converts
LimitCheckRaises(sql_query, n) ==
    /\ EarliestFailingStage(sql_query) = 0
    /\ ReSearchLimit(StrUpper(sql_query)).ok
    /\ LimitDigitCount(StrUpper(sql_query)) + n > INT_MAX_STR_DIGITS

\* C23: when a stage of validate_query raises, the call returns, and what it
\* returns is is_valid = false with the "Validation error" reason
C23_FaultFailsClosed ==
    (vphase = "validated" /\ LimitCheckRaises(inp, pad))
    => /\ ~validation_result.is_valid
       /\ validation_result.error.msg = "Validation error"

\* a text that is a well-formed SELECT on an allowed table, with a LIMIT number
\* too long to convert, has been refused
C23_Witness ==
    /\ vphase = "validated"
    /\ LimitCheckRaises(inp, pad)
    /\ ~StructureDefect(inp)
    /\ validate_schema_access(inp).is_valid
    /\ StrContains(T_USERS, inp)
    /\ ~validation_result.is_valid

(***************************************************************************)
(* Claims about the LIMIT clause execute_query appends                     *)
(***************************************************************************)
\* the text has a LIMIT clause: the word LIMIT, in any letter case, that is not
\* part of a longer identifier
HasLimitClause(text) ==
    LET u == StrUpper(text)
    IN \E i \in 1..Len(u) :
           /\ OccursAt(S_LIMIT, u, i)
           /\ (i = 1 \/ ~IsIdentChar(u[i - 1]))
           /\ (i + Len(S_LIMIT) > Len(u) \/ ~IsIdentChar(u[i + Len(S_LIMIT)]))

\* C24: the text execute_query hands to the database is the caller's text with
\* " LIMIT rowCap" appended when the caller's text has no LIMIT clause, and the
\* caller's text itself (stripped) when it has one
C24_LimitAppendedWhenAbsent ==
    (vphase = "executed" /\ exec_result.query # <<>>)
    => IF HasLimitClause(inp)
       THEN exec_result.query = StrStrip(inp)
       ELSE exec_result.query
              = StrStrip(inp) \o S_SP_LIMIT_SP \o DecimalStr(exec_result.limit)

(***************************************************************************)
(* Claims about the counter under concurrent calls                         *)
(***************************************************************************)
\* C25: of the check_rate_limit calls of one user that incremented the counter
\* during one lifetime of it, Redis answering throughout, at most
\* RATE_LIMIT_PER_MINUTE have returned True, however the calls interleave
C25_AtMostLimitGranted ==
    \A u \in Users :
        win[u].reachable => win[u].granted <= RATE_LIMIT_PER_MINUTE

\* the limit has been granted in one lifetime, a further call of that lifetime
\* has been refused, and another one is between its INCR and its EXPIRE
C25_Witness ==
    \E p, q \in Procs :
        /\ RateCallDone(p)
        /\ proc[p].allowed = "no"
        /\ win[proc[p].user].reachable
        /\ win[proc[p].user].granted = RATE_LIMIT_PER_MINUTE
        /\ proc[p].epoch = win[proc[p].user].epoch
        /\ proc[q].pc = "rl_expire"
        /\ proc[q].user = proc[p].user
        /\ proc[q].epoch = proc[p].epoch

(***************************************************************************)
(* Claims about the shape of the validator's result                        *)
(***************************************************************************)
\* C26: every result of validate_query is well formed: is_valid is false exactly
\* when error is set, warnings are listed only when is_valid is true, and there
\* are at most two of them
C26_ResultWellFormed ==
    vphase # "input" =>
        /\ (~validation_result.is_valid) <=> (validation_result.error # NoError)
        /\ validation_result.warnings # <<>> => validation_result.is_valid
        /\ Len(validation_result.warnings) <= 2

(***************************************************************************)
(* Claims about the two keyword checks taken together                      *)
(***************************************************************************)
\* the pre-checks of execute_query (lines 117-127) raised
PreCheckRaised ==
    /\ exec_result.outcome = "raised"
    /\ exec_result.error.msg \in {"Query cannot be empty", "Operation is not allowed"}

\* C27: a text that validate_query accepted passes the pre-checks of execute_query:
\* it is not empty once stripped and holds none of execute_query's seven keywords,
\* so neither 'Query cannot be empty' nor 'Operation X is not allowed' comes back
\* from an execution that follows an accepted validation
C27_AcceptedPassesPreChecks ==
    /\ vphase = "executed" => ~PreCheckRaised
    /\ (vphase = "validated" /\ validation_result.is_valid /\ pad = 0)
          => \A limit \in RowCaps : ~execute_query_prepare(inp, limit).raised

\* an accepted text that strip() shortens has been executed, and the database
\* was reached
C27_Witness ==
    /\ vphase = "executed"
    /\ validation_result.is_valid
    /\ StrStrip(inp) # inp
    /\ exec_result.query # <<>>
    /\ ~PreCheckRaised

(***************************************************************************)
(* Claims about the table endpoints and the health endpoints               *)
(***************************************************************************)
\* C28: the sample-data and table-schema endpoints hand a text to execute_query
\* only for a schema.table in READONLY_TABLES; for any other they answer 403
\* 'Access to this table is not allowed' and execute nothing
C28_TableEndpointsGuarded ==
    reply.endpoint \in {"sample", "schema"} =>
        IF reply.table \in READONLY_TABLES
        THEN TRUE
        ELSE /\ reply.ran = <<>>
             /\ reply.status = 403
             /\ reply.detail = "Access to this table is not allowed"

\* C29: readiness_check answers 'ready', and the detailed health check reports
\* the database healthy, only if a test connection of init_db has succeeded
C29_ReadyOnlyAfterConnectionTest ==
    (\/ reply.endpoint = "ready" /\ reply.status = 200
     \/ reply.endpoint = "detailed" /\ reply.detail = "healthy")
    => db_tested

(***************************************************************************)
(* Claims about the rate limit status                                      *)
(***************************************************************************)
\* a check_rate_limit call of u made in this state, its INCR and EXPIRE answered
\* as the cache answers now, would return False
NextCheckRefused(u) ==
    cacheUp /\ ~RateAllowed(RedisIncr(rl[u]).count)

\* the step in which a call of get_user_rate_limit_status by p returns
StatusReturns(p) ==
    /\ proc'[p] # proc[p]
    /\ proc'[p].pc = "done"
    /\ proc'[p].top = "get_user_rate_limit_status"

\* C30: a call of get_user_rate_limit_status leaves the user's counter and its
\* expiry as they were, and it reports exceeded = true, and so remaining = 0,
\* exactly when the user's next check_rate_limit call would return False
C30_StatusAgreesWithNextCheck ==
    [][\A p \in Procs :
          StatusReturns(p) =>
              /\ rl' = rl
              /\ proc'[p].status.exceeded <=> NextCheckRefused(proc'[p].user)
              /\ proc'[p].status.exceeded <=> (proc'[p].status.remaining = 0)]_vars

\* a status call has reported exceeded with the counter at the limit, and a
\* check_rate_limit call of the same user has been refused
C30_Witness ==
    \E p, q \in Procs :
        /\ proc[p].pc = "done"
        /\ proc[p].top = "get_user_rate_limit_status"
        /\ proc[p].status.exceeded
        /\ proc[p].status.current_count = RATE_LIMIT_PER_MINUTE
        /\ RateCallDone(q)
        /\ proc[q].user = proc[p].user
        /\ proc[q].allowed = "no"

=============================================================================
